---- MODULE Spec2Model ----
(***************************************************************************)
(* Model of the CLPsych 2025 evaluation scripts (src/evaluation):          *)
(*   - WellbeingScorer (wellbeing_scorer.py): MSE with missing-prediction  *)
(*     penalty and per-band breakdown;                                     *)
(*   - score_submission (run.py): the per-timeline join of gold and        *)
(*     submitted posts and the calls of the scorers.                       *)
(*                                                                         *)
(* Numbers.  A JSON/Python number is a record [k, v]: k = "int" with the   *)
(* integer v, k = "float" with the value v / FloatScale, and None is       *)
(* [k |-> "none"].  An MSE is kept as the exact fraction num / den.        *)
(***************************************************************************)
EXTENDS Integers, Sequences, FiniteSets, TLC

\* ------------------------------------------------------------------ bounds
\* longest batch handed to compute_mse
MaxLen == 3
\* floats are the multiples of 1/FloatScale
FloatScale == 2

\* ---------------------------------------------------------------- values
NoneV == [k |-> "none", v |-> 0]
IntV(n) == [k |-> "int", v |-> n]
FloatV(h) == [k |-> "float", v |-> h]

Abs(x) == IF x < 0 THEN -x ELSE x

\* the value of a number in units of 1/FloatScale
Scaled(x) == IF x.k = "float" THEN x.v ELSE x.v * FloatScale

\* int(x) for a float numerator h: truncation toward zero
Trunc(h) == IF h >= 0 THEN h \div FloatScale ELSE -((-h) \div FloatScale)

\* one element under ndarray.astype(int)
AsTypeInt(x) == IF x.k = "float" THEN IntV(Trunc(x.v)) ELSE IntV(x.v)

\* ndarray.astype(int)
AsTypeIntArr(a) == [i \in 1..Len(a) |-> AsTypeInt(a[i])]

RECURSIVE BoolIndex(_, _)
\* numpy boolean-mask indexing a[mask]
BoolIndex(a, mask) ==
    IF a = <<>> THEN <<>>
    ELSE (IF Head(mask) THEN <<Head(a)>> ELSE <<>>) \o BoolIndex(Tail(a), Tail(mask))

\* ~mask
Invert(mask) == [i \in 1..Len(mask) |-> ~mask[i]]

\* mask.any()
MaskAny(mask) == \E i \in 1..Len(mask) : mask[i]

\* mask.all()
MaskAll(mask) == \A i \in 1..Len(mask) : mask[i]

RECURSIVE SumSeq(_)
SumSeq(s) == IF s = <<>> THEN 0 ELSE Head(s) + SumSeq(Tail(s))

\* np.max over a non-empty array of integers
NpMax(s) == CHOOSE m \in {s[i] : i \in 1..Len(s)} : \A i \in 1..Len(s) : s[i] <= m

\* dict.update
Update(d1, d2) ==
    [key \in DOMAIN d1 \cup DOMAIN d2 |-> IF key \in DOMAIN d2 THEN d2[key] ELSE d1[key]]

EmptyDict == [key \in {} |-> 0]

\* ------------------------------------------------------- WellbeingScorer
\* self.max_possible_error
max_possible_error == 9

\* self.bins, in dict order
bins == << [label |-> "serious", lo |-> 1, hi |-> 4],
           [label |-> "impaired", lo |-> 5, hi |-> 6],
           [label |-> "minimal", lo |-> 7, hi |-> 10] >>

\* check_and_process_wellbeing_scores that takes the penalising branch whatever
\* do_penalize says
check_and_process_always_penalize(yt, yp, pen) ==
    LET valid_gold_idx == [i \in 1..Len(yt) |-> yt[i] # NoneV]
        yt1 == BoolIndex(yt, valid_gold_idx)
        yp1 == BoolIndex(yp, valid_gold_idx)
    IN  [y_trues |-> AsTypeIntArr(yt1), y_preds |-> yp1,
         none_mask |-> [i \in 1..Len(yp1) |-> yp1[i] = NoneV]]

\* check_and_process_wellbeing_scores that keeps the indices without a gold
\* score
check_and_process_keeping_null_gold(yt, yp, pen) ==
    LET none_pred_idx == [i \in 1..Len(yp) |-> yp[i] = NoneV]
    IN  IF ~pen
        THEN [y_trues |-> AsTypeIntArr(BoolIndex(yt, Invert(none_pred_idx))),
              y_preds |-> AsTypeIntArr(BoolIndex(yp, Invert(none_pred_idx))),
              none_mask |-> <<>>]
        ELSE [y_trues |-> AsTypeIntArr(yt), y_preds |-> yp, none_mask |-> none_pred_idx]

\* check_and_process_wellbeing_scores: (y_trues, y_preds, none mask)
check_and_process_wellbeing_scores(yt, yp, pen) ==
    LET valid_gold_idx == [i \in 1..Len(yt) |-> yt[i] # NoneV]
        yt1 == BoolIndex(yt, valid_gold_idx)
        yp1 == BoolIndex(yp, valid_gold_idx)
        none_pred_idx == [i \in 1..Len(yp1) |-> yp1[i] = NoneV]
    IN  IF ~pen
        THEN [y_trues |-> AsTypeIntArr(BoolIndex(yt1, Invert(none_pred_idx))),
              y_preds |-> AsTypeIntArr(BoolIndex(yp1, Invert(none_pred_idx))),
              none_mask |-> <<>>]
        ELSE [y_trues |-> AsTypeIntArr(yt1), y_preds |-> yp1, none_mask |-> none_pred_idx]

\* max_error with the size of the score range (10) in place of its width (9)
MaxErrorRangeSize(yt, yp, mask) ==
    IF MaskAll(mask) THEN max_possible_error + 1
    ELSE LET y_trues_subset == BoolIndex(yt, Invert(mask))
             y_preds_subset == AsTypeIntArr(BoolIndex(yp, Invert(mask)))
         IN  NpMax([i \in 1..Len(y_trues_subset) |->
                        Abs(y_trues_subset[i].v - y_preds_subset[i].v)])

\* max_error of compute_mse (only evaluated when none_mask.any())
MaxError(yt, yp, mask) ==
    IF MaskAll(mask) THEN max_possible_error
    ELSE LET y_trues_subset == BoolIndex(yt, Invert(mask))
             y_preds_subset == AsTypeIntArr(BoolIndex(yp, Invert(mask)))
         IN  NpMax([i \in 1..Len(y_trues_subset) |->
                        Abs(y_trues_subset[i].v - y_preds_subset[i].v)])

\* y_preds after "y_preds[none_mask] = y_trues[none_mask] + max_error"
PenalizeNones(yt, yp, mask) ==
    IF MaskAny(mask)
    THEN [i \in 1..Len(yp) |->
            IF mask[i] THEN IntV(yt[i].v + MaxError(yt, yp, mask)) ELSE yp[i]]
    ELSE yp

\* squared error of one pair, in units of 1/FloatScale^2
SqErr(g, p) == (Scaled(g) - Scaled(p)) * (Scaled(g) - Scaled(p))

\* sklearn mean_squared_error: raises ValueError on empty input
mean_squared_error(yt, yp) ==
    IF Len(yt) = 0
    THEN [raised |-> TRUE, num |-> 0, den |-> 1]
    ELSE [raised |-> FALSE,
          num |-> SumSeq([i \in 1..Len(yt) |-> SqErr(yt[i], yp[i])]),
          den |-> Len(yt) * FloatScale * FloatScale]

\* f"mse_{suffix}" if suffix else "mse"
MetricName(sfx) == IF sfx = "" THEN "mse" ELSE "mse_" \o sfx

\* the result dict built at lines 107-112
MseEntry(sfx, m) ==
    [key \in {MetricName(sfx)} |-> [task |-> "A.2", value |-> [num |-> m.num, den |-> m.den]]]

\* a bin_mask that takes every score up to the band's upper end
BinMaskCumulative(yt, b) == [i \in 1..Len(yt) |-> yt[i].v <= b.hi]

\* bin_mask of one band
BinMask(yt, b) == [i \in 1..Len(yt) |-> yt[i].v >= b.lo /\ yt[i].v <= b.hi]

\* compute_mse with do_binwise=False (the call made for each band)
compute_mse_flat(yt, yp, pen, sfx) ==
    LET p == check_and_process_wellbeing_scores(yt, yp, pen)
        preds == PenalizeNones(p.y_trues, p.y_preds, p.none_mask)
        m == mean_squared_error(p.y_trues, preds)
    IN  IF m.raised THEN [raised |-> TRUE, result |-> EmptyDict]
        ELSE [raised |-> FALSE, result |-> MseEntry(sfx, m)]

\* a band loop that scores an empty band as zero instead of skipping it
BinIterationZeroForEmpty(res, yt, yp, pen, b) ==
    LET bin_mask == BinMask(yt, b)
        sub == IF MaskAny(bin_mask)
               THEN compute_mse_flat(BoolIndex(yt, bin_mask), BoolIndex(yp, bin_mask),
                                     pen, b.label)
               ELSE [raised |-> FALSE,
                     result |-> MseEntry(b.label, [num |-> 0, den |-> 1])]
    IN  IF res.raised \/ sub.raised THEN [raised |-> TRUE, result |-> EmptyDict]
        ELSE [raised |-> FALSE, result |-> Update(res.result, sub.result)]

\* one iteration of "for bin_label, (bin_min, bin_max) in self.bins.items()"
BinIteration(res, yt, yp, pen, b) ==
    LET bin_mask == BinMask(yt, b)
    IN  IF ~MaskAny(bin_mask) THEN res
        ELSE LET sub == compute_mse_flat(BoolIndex(yt, bin_mask), BoolIndex(yp, bin_mask),
                                         pen, b.label)
             IN  IF res.raised \/ sub.raised THEN [raised |-> TRUE, result |-> EmptyDict]
                 ELSE [raised |-> FALSE, result |-> Update(res.result, sub.result)]

RECURSIVE BinLoop(_, _, _, _, _)
BinLoop(res, yt, yp, pen, i) ==
    IF i > Len(bins) THEN res
    ELSE BinLoop(BinIteration(res, yt, yp, pen, bins[i]), yt, yp, pen, i + 1)

\* WellbeingScorer.compute_mse
compute_mse(yt, yp, pen, binw, sfx) ==
    LET p == check_and_process_wellbeing_scores(yt, yp, pen)
        preds == PenalizeNones(p.y_trues, p.y_preds, p.none_mask)
        m == mean_squared_error(p.y_trues, preds)
        res == [raised |-> FALSE, result |-> MseEntry(sfx, m)]
    IN  IF m.raised THEN [raised |-> TRUE, result |-> EmptyDict]
        ELSE IF binw THEN BinLoop(res, p.y_trues, preds, pen, 1)
        ELSE res

\* ------------------------------------------------- inputs of compute_mse
GoldScores == {3, 4, 5, 8}
GoldVals == {NoneV} \cup {IntV(g) : g \in GoldScores}
PredVals == {NoneV, IntV(3), FloatV(5 * FloatScale + 1)}

Batches(S) == UNION {[1..n -> S] : n \in 0..MaxLen}

\* ------------------------------------------------------------- strings
\* A string is the sequence of its characters; "^2" stands for the one
\* character U+00B2 (superscript two), numeric for str.isnumeric and no
\* decimal digit for int().
Digits == <<"0", "1", "2", "3", "4", "5", "6", "7", "8", "9">>
DecimalChars == {Digits[i] : i \in 1..Len(Digits)}
NumericChars == DecimalChars \cup {"^2"}
Whitespace == {" "}

DigitValue(c) == (CHOOSE i \in 1..Len(Digits) : Digits[i] = c) - 1

RECURSIVE LStrip(_)
LStrip(s) == IF s # <<>> /\ Head(s) \in Whitespace THEN LStrip(Tail(s)) ELSE s

RECURSIVE RStrip(_)
RStrip(s) ==
    IF s # <<>> /\ s[Len(s)] \in Whitespace THEN RStrip(SubSeq(s, 1, Len(s) - 1)) ELSE s

\* str.strip()
Strip(s) == RStrip(LStrip(s))

\* str.isnumeric()
IsNumeric(s) == s # <<>> /\ \A i \in 1..Len(s) : s[i] \in NumericChars

RECURSIVE DecimalValue(_)
DecimalValue(s) ==
    IF s = <<>> THEN 0
    ELSE 10 * DecimalValue(SubSeq(s, 1, Len(s) - 1)) + DigitValue(s[Len(s)])

\* int(s) of a stripped string: ValueError unless every character is a decimal digit
ParseInt(s) ==
    IF s # <<>> /\ \A i \in 1..Len(s) : s[i] \in DecimalChars
    THEN [raised |-> FALSE, value |-> IntV(DecimalValue(s))]
    ELSE [raised |-> TRUE, value |-> NoneV]

\* the list comprehension without its filter: blank strings stay, stripped
StripKeepBlank(xs) == [i \in 1..Len(xs) |-> Strip(xs[i])]

\* list comprehension [s.strip() for s in xs if s.strip()]
StripNonBlank(xs) ==
    SelectSeq([i \in 1..Len(xs) |-> Strip(xs[i])], LAMBDA t : t # <<>>)

\* ---------------------------------------------------------- JSON values
\* the strings a submission may give as wellbeing_score
ScoreStrings == << <<"7">>, <<" ", "8", " ">>, <<"1", "1">>, <<>>, <<"7", ".", "5">>,
                   <<"^2">> >>
StrV(i) == [k |-> "str", v |-> i]
BoolV(b) == [k |-> "bool", v |-> b]
ListV == [k |-> "list", v |-> 0]

\* dict.get(key, default) on a post record: keys holds the keys present
Get(d, key, default) == IF key \in d.keys THEN d[key] ELSE default

\* ------------------------------------------------------------ SpanScorer
\* tokenizer(spans)["input_ids"] without the two special tokens: the words
NumTokens(spans) ==
    SumSeq([i \in 1..Len(spans) |->
               Len(SelectSeq(spans[i], LAMBDA c : c \notin Whitespace))])

\* BERTScore F of one predicted span against one gold span, in 1/1000: a
\* fixed stand-in for the scorer model
BertF(pred, gold) == IF pred = gold THEN 1000 ELSE 250 + 50 * Len(pred)

\* SpanScorer.score_empty_predictions
score_empty_predictions ==
    [key \in {"bertscore_recall", "bertscore_weighted_recall"} |->
        [task |-> "A.1", value |-> [num |-> 0, den |-> 1]]]

\* SpanScorer.compute_span_metrics; a mean over no gold span is nan (den = 0)
compute_span_metrics(gold_in, predicted_in) ==
    LET gold_spans == StripNonBlank(gold_in)
        predicted_spans == StripNonBlank(predicted_in)
        g == NumTokens(gold_spans)
        p == NumTokens(predicted_spans)
        best == [i \in 1..Len(gold_spans) |->
                    NpMax([j \in 1..Len(predicted_spans) |->
                              BertF(predicted_spans[j], gold_spans[i])])]
        total == SumSeq(best)
        n == Len(gold_spans)
    IN  IF predicted_spans = <<>> THEN score_empty_predictions
        ELSE [key \in {"bertscore_recall", "bertscore_weighted_recall"} |->
                [task |-> "A.1",
                 value |-> IF key = "bertscore_recall" \/ ~(g < p)
                           THEN [num |-> total, den |-> 1000 * n]
                           ELSE [num |-> total * g, den |-> 1000 * n * p]]]

\* the suffixed copy with the two values taken from the wrong metric
SuffixedSwapped(d, sfx) ==
    [key \in {"bertscore_recall" \o sfx, "bertscore_weighted_recall" \o sfx} |->
        IF key = "bertscore_recall" \o sfx THEN d["bertscore_weighted_recall"]
        ELSE d["bertscore_recall"]]

\* {metric_name + suffix: v for metric_name, v in d.items()} at lines 129-140
Suffixed(d, sfx) ==
    [key \in {"bertscore_recall" \o sfx, "bertscore_weighted_recall" \o sfx} |->
        IF key = "bertscore_recall" \o sfx THEN d["bertscore_recall"]
        ELSE d["bertscore_weighted_recall"]]

\* ------------------------------------------------------------- NLIScorer
\* a sentence is a string; the model tells apart four of them
SentNo(s) ==
    CASE s = <<"g1">> -> 1 [] s = <<"g2">> -> 2 [] s = <<"p1">> -> 3 [] OTHER -> 4

\* NLIScorer._compute_nli_scores, in 1/1000: a fixed stand-in for the model
_compute_nli_scores(premise, hypothesis) ==
    [entailment |-> (SentNo(premise) * 170 + SentNo(hypothesis) * 90) % 400,
     contradiction |-> (SentNo(premise) * 110 + SentNo(hypothesis) * 230) % 600]

\* the cross product of lines 52-56, source-major
RECURSIVE PairScores(_, _, _)
PairScores(source_sents, predicted_sents, i) ==
    IF i > Len(source_sents) THEN <<>>
    ELSE [j \in 1..Len(predicted_sents) |->
             _compute_nli_scores(source_sents[i], predicted_sents[j])]
         \o PairScores(source_sents, predicted_sents, i + 1)

\* NLIScorer.compute_nli_scores; a mean over no pair is nan (den = 0)
compute_nli_scores(source_sents, predicted_sents, task, prefix, source_name) ==
    LET scores == PairScores(source_sents, predicted_sents, 1)
        n == Len(scores)
        contradict == [i \in 1..n |-> scores[i].contradiction]
        entail == [i \in 1..n |-> scores[i].entailment]
        mean_consistency ==
            IF predicted_sents = <<>> THEN [num |-> 0, den |-> 1]
            ELSE [num |-> 1000 * n - SumSeq(contradict), den |-> 1000 * n]
        max_entailment ==
            IF predicted_sents = <<>> THEN [num |-> 0, den |-> 1]
            ELSE [num |-> NpMax(entail), den |-> 1000]
        max_contradiction ==
            IF predicted_sents = <<>> THEN [num |-> 1, den |-> 1]
            ELSE [num |-> NpMax(contradict), den |-> 1000]
        k1 == prefix \o "_mean_consistency_" \o source_name
        k2 == prefix \o "_max_entailment_" \o source_name
        k3 == prefix \o "_max_contradiction_" \o source_name
    IN  [key \in {k1, k2, k3} |->
            [task |-> task,
             value |-> IF key = k1 THEN mean_consistency
                       ELSE IF key = k2 THEN max_entailment ELSE max_contradiction]]

\* NLIScorer.compute_post_nli_gold
compute_post_nli_gold(gold_sents, predicted_sents) ==
    compute_nli_scores(gold_sents, predicted_sents, "B", "post", "gold")

\* NLIScorer.compute_timeline_nli_gold
compute_timeline_nli_gold(gold_sents, predicted_sents) ==
    compute_nli_scores(gold_sents, predicted_sents, "C", "timeline", "gold")

\* ------------------------------------------------------ score_submission
\* nltk sent_tokenize: a text is kept as the sequence of its sentences, each
\* with the whitespace around it; the empty text has none
SummaryTexts == << <<>>,
                   << <<"p1">> >>,
                   << <<" ", "p1">>, <<" ">>, <<"p2", " ">> >> >>
sent_tokenize(text) == SummaryTexts[text.v]

\* get_active_tasks: [valid_task in tasks for valid_task in valid_tasks]
get_active_tasks(tasks) ==
    LET active == IF tasks = {} THEN {"A1", "A2", "B", "C"} ELSE tasks
    IN  [A1 |-> "A1" \in active, A2 |-> "A2" \in active,
         B |-> "B" \in active, C |-> "C" \in active]

\* lines 94-104: the type conversion of post_datum.get("wellbeing_score");
\* bool is a subclass of int
NormalizeScore(w) ==
    IF w.k = "str"
    THEN LET t == Strip(ScoreStrings[w.v])
         IN  IF t # <<>> /\ IsNumeric(t) THEN ParseInt(t)
             ELSE [raised |-> FALSE, value |-> NoneV]
    ELSE IF ~(w.k \in {"int", "bool"} \/ w.k = "float")
         THEN [raised |-> FALSE, value |-> NoneV]
    ELSE [raised |-> FALSE, value |-> w]

RECURSIVE PostNliResultsSkippingEmpty(_, _, _)
\* the task B loop that also skips a post whose predicted summary is empty
PostNliResultsSkippingEmpty(gold_summary_sents, predicted, i) ==
    IF i > Len(gold_summary_sents) \/ i > Len(predicted) THEN <<>>
    ELSE (IF gold_summary_sents[i] # <<>> /\ predicted[i] # <<>>
          THEN <<compute_post_nli_gold(gold_summary_sents[i], predicted[i])>>
          ELSE <<>>)
         \o PostNliResultsSkippingEmpty(gold_summary_sents, predicted, i + 1)

RECURSIVE PostNliResults(_, _, _)
\* lines 165-178: the results appended by the loop over
\* zip(gold_summary_sents, predicted_summary_sents), from pair i on
PostNliResults(gold_summary_sents, predicted, i) ==
    IF i > Len(gold_summary_sents) \/ i > Len(predicted) THEN <<>>
    ELSE (IF gold_summary_sents[i] # <<>>
          THEN <<compute_post_nli_gold(gold_summary_sents[i], predicted[i])>>
          ELSE <<>>)
         \o PostNliResults(gold_summary_sents, predicted, i + 1)

\* --------------------------------------------- inputs of score_submission
\* most posts of a gold timeline
MaxPosts == 2

PostKeys == {"adaptive_evidence", "maladaptive_evidence", "summary", "wellbeing_score"}

\* post ids "p1", "p2", ...
PostId(i) == "p" \o Digits[i + 1]

\* the order of the gold file's timelines
TimelineOrder == <<"t1", "t2">>

DefaultGoldPost == [wellbeing_score |-> IntV(5), summary_sents |-> << <<"g1">> >>]
DefaultDatum ==
    [keys |-> PostKeys,
     adaptive_evidence |-> << <<"w1">> >>,
     maladaptive_evidence |-> <<>>,
     wellbeing_score |-> IntV(5),
     summary |-> StrV(2)]
DefaultCase == [gold |-> DefaultGoldPost, present |-> TRUE, pred |-> DefaultDatum]

\* what a submission may give as wellbeing_score
RawScores ==
    {NoneV, IntV(3), IntV(11), FloatV(5 * FloatScale + 1), BoolV(1), ListV}
        \cup {StrV(i) : i \in 1..Len(ScoreStrings)}

\* a gold post with the submitted post for it: one field varies at a time
WellbeingCases ==
    {[gold |-> [DefaultGoldPost EXCEPT !.wellbeing_score = g], present |-> TRUE,
      pred |-> [DefaultDatum EXCEPT !.wellbeing_score = w]] :
        g \in {NoneV, IntV(5)}, w \in RawScores}
    \cup {[gold |-> DefaultGoldPost, present |-> TRUE,
           pred |-> [DefaultDatum EXCEPT !.keys = PostKeys \ {"wellbeing_score"}]]}
SummaryCases ==
    {[gold |-> [DefaultGoldPost EXCEPT !.summary_sents = gs], present |-> TRUE,
      pred |-> [DefaultDatum EXCEPT !.summary = ps]] :
        gs \in {<<>>, << <<"g1">>, <<"g2">> >>},
        ps \in {StrV(i) : i \in 1..Len(SummaryTexts)} \cup {NoneV}}
    \cup {[gold |-> DefaultGoldPost, present |-> TRUE,
           pred |-> [DefaultDatum EXCEPT !.keys = PostKeys \ {"summary"}]]}
EvidenceCases ==
    {[gold |-> DefaultGoldPost, present |-> TRUE,
      pred |-> [DefaultDatum EXCEPT !.adaptive_evidence = ev, !.maladaptive_evidence = ev]] :
        ev \in {<<>>, << <<" ">> >>, << <<" ", "w1">>, <<"w2", " ", "w3">> >>}}
    \cup {[gold |-> DefaultGoldPost, present |-> TRUE,
           pred |-> [DefaultDatum EXCEPT
                        !.keys = PostKeys \ {"adaptive_evidence", "maladaptive_evidence"}]]}
AbsentCases == {[gold |-> DefaultGoldPost, present |-> FALSE, pred |-> DefaultDatum]}
PostCases ==
    {DefaultCase} \cup WellbeingCases \cup SummaryCases \cup EvidenceCases \cup AbsentCases

\* the timeline-level part of a gold timeline and of its submission
DefaultTimelineCase ==
    [adaptive_spans |-> << <<"w1">> >>, maladaptive_spans |-> << <<"w2">> >>,
     summary_sents |-> << <<"g1">> >>, summary |-> StrV(2)]
TimelineCases ==
    {DefaultTimelineCase,
     [DefaultTimelineCase EXCEPT !.summary_sents = <<>>],
     [DefaultTimelineCase EXCEPT !.summary = NoneV],
     [DefaultTimelineCase EXCEPT !.adaptive_spans = <<>>, !.summary = StrV(1)]}

\* the --tasks argument
TaskArgs == {{}, {"A2"}, {"B"}, {"A1", "C"}}

\* the gold record of a timeline (process_annotated_data's output)
GoldDatum(tcase, cases) ==
    [timeline_level |->
        [post_ids |-> [i \in 1..Len(cases) |-> PostId(i)],
         adaptive_spans |-> tcase.adaptive_spans,
         maladaptive_spans |-> tcase.maladaptive_spans,
         summary_sents |-> tcase.summary_sents],
     post_level |->
        [pid \in {PostId(i) : i \in 1..Len(cases)} |->
            cases[CHOOSE i \in 1..Len(cases) : PostId(i) = pid].gold]]

\* the submitted record of a timeline
SubmittedDatum(tcase, cases) ==
    [timeline_level |-> [summary |-> tcase.summary],
     post_level |->
        [pid \in {PostId(i) : i \in {j \in 1..Len(cases) : cases[j].present}} |->
            cases[CHOOSE i \in 1..Len(cases) : PostId(i) = pid].pred]]

\* a submission that also holds a post "px" in timeline t1 and a timeline
\* "tx", neither of them in the gold file
WithExtras(sub) ==
    [t \in DOMAIN sub \cup {"tx"} |->
        IF t = "tx" THEN SubmittedDatum(DefaultTimelineCase, <<DefaultCase>>)
        ELSE IF t # "t1" THEN sub[t]
        ELSE [timeline_level |-> sub[t].timeline_level,
              post_level |->
                 [pid \in DOMAIN sub[t].post_level \cup {"px"} |->
                     IF pid = "px"
                     THEN [DefaultDatum EXCEPT !.adaptive_evidence = << <<"w3">> >>,
                                               !.wellbeing_score = IntV(11),
                                               !.summary = StrV(3)]
                     ELSE sub[t].post_level[pid]]]]

\* ------------------------------------------------------------------ state
VARIABLES
    in_y_trues,    \* compute_mse: the caller's y_trues
    in_y_preds,    \* compute_mse: the caller's y_preds
    do_penalize,   \* compute_mse: argument
    do_binwise,    \* compute_mse: argument
    y_trues,       \* compute_mse: local, after preprocessing
    y_preds,       \* compute_mse: local, after preprocessing / penalty
    none_mask,     \* compute_mse: local
    result,        \* compute_mse: the result dict being built
    bin_i,         \* compute_mse: position in the loop over self.bins
    ws_pc,         \* compute_mse: position in the function
    gold_data,                    \* score_submission: argument
    submission_data,              \* score_submission: argument
    do_tasks,                     \* score_submission: do_A1, do_A2, do_B, do_C
    tl_i,                         \* position in "for timeline_id, gold_datum"
    post_i,                       \* position in "for post_id in post_ids"
    predicted_spans_adaptive,     \* score_submission: local
    predicted_spans_maladaptive,  \* score_submission: local
    predicted_wellbeing_scores,   \* score_submission: local
    predicted_summary_sents,      \* score_submission: local
    curr_results,                 \* score_submission: local
    timeline_to_results,          \* score_submission: the dict returned
    pc,                           \* score_submission: position in the function
    error                         \* the exception that left score_submission

VARIABLES
    ss_gold_in,          \* compute_span_metrics: the caller's gold_spans
    ss_predicted_in,     \* compute_span_metrics: the caller's predicted_spans
    ss_gold_spans,       \* compute_span_metrics: local, after stripping
    ss_predicted_spans,  \* compute_span_metrics: local, after stripping
    weight,              \* compute_span_metrics: local
    curr_recalls,        \* compute_span_metrics: local
    curr_recalls_weighted,  \* compute_span_metrics: local
    ss_result,           \* compute_span_metrics: the dict returned
    ss_pc                \* compute_span_metrics: position in the function

VARIABLES
    nli_args,            \* compute_nli_scores: task, prefix, source_name
    source_sents,        \* compute_nli_scores: argument
    predicted_sents,     \* compute_nli_scores: argument
    source_i,            \* position in "for source_sent in source_sents"
    predicted_j,         \* position in "for predicted_sent in predicted_sents"
    nli_calls,           \* the calls of _compute_nli_scores made so far
    entail_scores,       \* compute_nli_scores: local
    contradict_scores,   \* compute_nli_scores: local
    nli_result,          \* compute_nli_scores: the dict returned
    nli_pc               \* compute_nli_scores: position in the function

VARIABLES
    timeline_id_to_post_ids,  \* Validator: the mapping loaded by __init__
    data,                     \* validate_file: what json.load gave
    valid,                    \* Validator.valid
    timelines_with_issues,    \* Validator.timelines_with_issues
    posts_with_issues,        \* Validator.posts_with_issues, <<timeline_id, post_id>>
    warnings,                 \* the logger.warning calls made so far
    val_tl,                   \* position in "for timeline_id, timeline_data"
    val_post,                 \* position in "for post_id, post_data"
    validated_timelines,      \* the timelines validate_timeline_dict was called for
    validated_posts,          \* the posts validate_post_dict was called for
    exit_code,                \* the code main gave to sys.exit
    val_pc                    \* position in validate_file and main

VARIABLES
    submission_data_path,  \* parse_filename: argument
    stem,                  \* parse_filename: local
    eles,                  \* parse_filename: local
    team_name,             \* parse_filename: local, returned
    submission_id,         \* parse_filename: local, returned
    pf_pc                  \* parse_filename: position in the function

spanVars == <<ss_gold_in, ss_predicted_in, ss_gold_spans, ss_predicted_spans, weight,
              curr_recalls, curr_recalls_weighted, ss_result, ss_pc>>
nliVars == <<nli_args, source_sents, predicted_sents, source_i, predicted_j, nli_calls,
             entail_scores, contradict_scores, nli_result, nli_pc>>

valVars == <<timeline_id_to_post_ids, data, valid, timelines_with_issues,
             posts_with_issues, warnings, val_tl, val_post, validated_timelines, validated_posts,
             exit_code, val_pc>>

fileVars == <<submission_data_path, stem, eles, team_name, submission_id, pf_pc>>

\* the functions stepped on their own
unitVars == <<spanVars, nliVars, valVars, fileVars>>

\* no call of compute_span_metrics of its own is under way
SpanIdle ==
    /\ ss_gold_in = <<>>
    /\ ss_predicted_in = <<>>
    /\ ss_gold_spans = <<>>
    /\ ss_predicted_spans = <<>>
    /\ weight = [num |-> 1, den |-> 1]
    /\ curr_recalls = <<>>
    /\ curr_recalls_weighted = <<>>
    /\ ss_result = EmptyDict
    /\ ss_pc = "idle"

\* no call of compute_nli_scores of its own is under way
NliIdle ==
    /\ nli_args = [task |-> "B", prefix |-> "post", source_name |-> "gold"]
    /\ source_sents = <<>>
    /\ predicted_sents = <<>>
    /\ source_i = 0
    /\ predicted_j = 0
    /\ nli_calls = <<>>
    /\ entail_scores = <<>>
    /\ contradict_scores = <<>>
    /\ nli_result = EmptyDict
    /\ nli_pc = "idle"

\* no run of the validator is under way
ValIdle ==
    /\ timeline_id_to_post_ids = EmptyDict
    /\ data = NoneV
    /\ valid = TRUE
    /\ timelines_with_issues = {}
    /\ posts_with_issues = {}
    /\ warnings = {}
    /\ val_tl = 0
    /\ val_post = 0
    /\ validated_timelines = {}
    /\ validated_posts = {}
    /\ exit_code = -1
    /\ val_pc = "idle"

\* no call of parse_filename is under way
FileIdle ==
    /\ submission_data_path = <<>>
    /\ stem = <<>>
    /\ eles = <<>>
    /\ team_name = <<>>
    /\ submission_id = <<>>
    /\ pf_pc = "idle"

UnitsIdle == SpanIdle /\ NliIdle /\ ValIdle /\ FileIdle

wsVars == <<in_y_trues, in_y_preds, do_penalize, do_binwise, y_trues, y_preds,
            none_mask, result, bin_i, ws_pc>>

runVars == <<gold_data, submission_data, do_tasks, tl_i, post_i,
             predicted_spans_adaptive, predicted_spans_maladaptive,
             predicted_wellbeing_scores, predicted_summary_sents, curr_results,
             timeline_to_results, pc, error>>

vars == <<wsVars, runVars, unitVars>>

\* no call of score_submission is under way
RunIdle ==
    /\ gold_data = EmptyDict
    /\ submission_data = EmptyDict
    /\ do_tasks = get_active_tasks({})
    /\ tl_i = 0
    /\ post_i = 0
    /\ predicted_spans_adaptive = <<>>
    /\ predicted_spans_maladaptive = <<>>
    /\ predicted_wellbeing_scores = <<>>
    /\ predicted_summary_sents = <<>>
    /\ curr_results = <<>>
    /\ timeline_to_results = EmptyDict
    /\ pc = "idle"
    /\ error = "none"

\* ------------------------------------------- compute_mse, step by step
MseInit ==
    /\ in_y_trues \in Batches(GoldVals)
    /\ in_y_preds \in Batches(PredVals)
    /\ Len(in_y_trues) = Len(in_y_preds)
    /\ do_penalize \in BOOLEAN
    /\ do_binwise \in BOOLEAN
    /\ y_trues = <<>>
    /\ y_preds = <<>>
    /\ none_mask = <<>>
    /\ result = EmptyDict
    /\ bin_i = 0
    /\ ws_pc = "call"
    /\ RunIdle
    /\ UnitsIdle

\* lines 88-90
CheckAndProcess ==
    /\ ws_pc = "call"
    /\ LET p == check_and_process_wellbeing_scores(in_y_trues, in_y_preds, do_penalize)
       IN  /\ y_trues' = p.y_trues
           /\ y_preds' = p.y_preds
           /\ none_mask' = p.none_mask
    /\ ws_pc' = "processed"
    /\ UNCHANGED <<in_y_trues, in_y_preds, do_penalize, do_binwise, result, bin_i>>
    /\ UNCHANGED <<runVars, unitVars>>

\* lines 92-104
Penalize ==
    /\ ws_pc = "processed"
    /\ y_preds' = PenalizeNones(y_trues, y_preds, none_mask)
    /\ ws_pc' = "penalized"
    /\ UNCHANGED <<in_y_trues, in_y_preds, do_penalize, do_binwise, y_trues,
                   none_mask, result, bin_i>>
    /\ UNCHANGED <<runVars, unitVars>>

\* lines 107-112: the ValueError of mean_squared_error leaves compute_mse
ScoreRaises ==
    /\ ws_pc = "penalized"
    /\ mean_squared_error(y_trues, y_preds).raised
    /\ ws_pc' = "raised"
    /\ UNCHANGED <<in_y_trues, in_y_preds, do_penalize, do_binwise, y_trues, y_preds,
                   none_mask, result, bin_i>>
    /\ UNCHANGED <<runVars, unitVars>>

\* lines 107-113
Score ==
    /\ ws_pc = "penalized"
    /\ ~mean_squared_error(y_trues, y_preds).raised
    /\ result' = MseEntry("", mean_squared_error(y_trues, y_preds))
    /\ bin_i' = 1
    /\ ws_pc' = IF do_binwise THEN "bins" ELSE "return"
    /\ UNCHANGED <<in_y_trues, in_y_preds, do_penalize, do_binwise, y_trues, y_preds,
                   none_mask>>
    /\ UNCHANGED <<runVars, unitVars>>

\* lines 115-127: one band
BinStep ==
    /\ ws_pc = "bins"
    /\ bin_i <= Len(bins)
    /\ LET r == BinIteration([raised |-> FALSE, result |-> result], y_trues, y_preds,
                             do_penalize, bins[bin_i])
       IN  IF r.raised
           THEN /\ ws_pc' = "raised"
                /\ UNCHANGED <<result, bin_i>>
           ELSE /\ result' = r.result
                /\ bin_i' = bin_i + 1
                /\ ws_pc' = IF bin_i = Len(bins) THEN "return" ELSE "bins"
    /\ UNCHANGED <<in_y_trues, in_y_preds, do_penalize, do_binwise, y_trues, y_preds,
                   none_mask>>
    /\ UNCHANGED <<runVars, unitVars>>

\* line 128
Return ==
    /\ ws_pc = "return"
    /\ ws_pc' = "done"
    /\ UNCHANGED <<in_y_trues, in_y_preds, do_penalize, do_binwise, y_trues, y_preds,
                   none_mask, result, bin_i>>
    /\ UNCHANGED <<runVars, unitVars>>

MseNext == CheckAndProcess \/ Penalize \/ ScoreRaises \/ Score \/ BinStep \/ Return

SpecMse == MseInit /\ [][MseNext]_vars

\* --------------------------------------- score_submission, step by step
\* no call of compute_mse of its own is under way
MseIdle ==
    /\ in_y_trues = <<>>
    /\ in_y_preds = <<>>
    /\ do_penalize = TRUE
    /\ do_binwise = TRUE
    /\ y_trues = <<>>
    /\ y_preds = <<>>
    /\ none_mask = <<>>
    /\ result = EmptyDict
    /\ bin_i = 0
    /\ ws_pc = "idle"

\* the gold file and the submission: timeline t1 varies, one field of a post
\* at a time with all tasks active, or the timeline level and the tasks with
\* plain posts; timeline t2 is plain; the submission may hold a post and a
\* timeline of its own
RunInit ==
    /\ \E n \in 1..MaxPosts, tasks \in TaskArgs, tcase \in TimelineCases :
         \E cases \in [1..n -> PostCases], extras \in BOOLEAN :
            /\ \/ tasks = {} /\ tcase = DefaultTimelineCase
               \/ \A i \in 1..n : cases[i] = DefaultCase
            /\ gold_data = [t \in {"t1", "t2"} |->
                              IF t = "t1" THEN GoldDatum(tcase, cases)
                              ELSE GoldDatum(DefaultTimelineCase, <<DefaultCase>>)]
            /\ LET sub == [t \in {"t1", "t2"} |->
                              IF t = "t1" THEN SubmittedDatum(tcase, cases)
                              ELSE SubmittedDatum(DefaultTimelineCase, <<DefaultCase>>)]
               IN  submission_data = IF extras THEN WithExtras(sub) ELSE sub
            /\ do_tasks = get_active_tasks(tasks)
    /\ tl_i = 1
    /\ post_i = 0
    /\ predicted_spans_adaptive = <<>>
    /\ predicted_spans_maladaptive = <<>>
    /\ predicted_wellbeing_scores = <<>>
    /\ predicted_summary_sents = <<>>
    /\ curr_results = <<>>
    /\ timeline_to_results = EmptyDict
    /\ pc = "timeline"
    /\ error = "none"
    /\ MseIdle
    /\ UnitsIdle

\* the timeline the loop is at, its gold record and its post ids
timeline_id == TimelineOrder[tl_i]
gold_datum == gold_data[timeline_id]
post_ids == gold_datum.timeline_level.post_ids

\* an exception leaves score_submission: nothing is returned
Raise(name) ==
    /\ pc' = "raised"
    /\ error' = name
    /\ UNCHANGED <<gold_data, submission_data, do_tasks, tl_i, post_i,
                   predicted_spans_adaptive, predicted_spans_maladaptive,
                   predicted_wellbeing_scores, predicted_summary_sents, curr_results,
                   timeline_to_results>>

\* lines 69-85: the head of the loop over the gold timelines
StartTimeline ==
    /\ pc = "timeline"
    /\ tl_i <= Len(TimelineOrder)
    /\ curr_results' = <<>>
    /\ predicted_spans_adaptive' = <<>>
    /\ predicted_spans_maladaptive' = <<>>
    /\ predicted_wellbeing_scores' = <<>>
    /\ predicted_summary_sents' = <<>>
    /\ post_i' = 1
    /\ pc' = IF Len(post_ids) = 0 THEN "A1" ELSE "posts"
    /\ UNCHANGED <<gold_data, submission_data, do_tasks, tl_i, timeline_to_results, error>>
    /\ UNCHANGED <<wsVars, unitVars>>

\* lines 87-109: one post of the timeline
ReadPost ==
    /\ pc = "posts"
    /\ post_i <= Len(post_ids)
    /\ LET post_id == post_ids[post_i]
       IN  IF \/ timeline_id \notin DOMAIN submission_data
              \/ post_id \notin DOMAIN submission_data[timeline_id].post_level
           THEN Raise("KeyError")
           ELSE LET post_datum == submission_data[timeline_id].post_level[post_id]
                    wellbeing_score ==
                        NormalizeScore(Get(post_datum, "wellbeing_score", NoneV))
                    post_summary == Get(post_datum, "summary", StrV(1))
                IN  IF wellbeing_score.raised THEN Raise("ValueError")
                    ELSE IF post_summary.k # "str" THEN Raise("TypeError")
                    ELSE /\ predicted_spans_adaptive' = predicted_spans_adaptive
                                \o Get(post_datum, "adaptive_evidence", <<>>)
                         /\ predicted_spans_maladaptive' = predicted_spans_maladaptive
                                \o Get(post_datum, "maladaptive_evidence", <<>>)
                         /\ predicted_wellbeing_scores' =
                                Append(predicted_wellbeing_scores, wellbeing_score.value)
                         /\ predicted_summary_sents' =
                                Append(predicted_summary_sents,
                                       StripNonBlank(sent_tokenize(post_summary)))
                         /\ post_i' = post_i + 1
                         /\ pc' = IF post_i = Len(post_ids) THEN "A1" ELSE "posts"
                         /\ UNCHANGED <<gold_data, submission_data, do_tasks, tl_i,
                                        curr_results, timeline_to_results, error>>
    /\ UNCHANGED <<wsVars, unitVars>>

\* lines 111-140
TaskA1 ==
    /\ pc = "A1"
    /\ curr_results' =
         IF do_tasks.A1
         THEN LET curr_result_adaptive ==
                      compute_span_metrics(gold_datum.timeline_level.adaptive_spans,
                                           predicted_spans_adaptive)
                  curr_result_maladaptive ==
                      compute_span_metrics(gold_datum.timeline_level.maladaptive_spans,
                                           predicted_spans_maladaptive)
              IN  curr_results \o
                  <<curr_result_adaptive, curr_result_maladaptive,
                    Suffixed(curr_result_adaptive, "_adaptive"),
                    Suffixed(curr_result_maladaptive, "_maladaptive")>>
         ELSE curr_results
    /\ pc' = "A2"
    /\ UNCHANGED <<gold_data, submission_data, do_tasks, tl_i, post_i,
                   predicted_spans_adaptive, predicted_spans_maladaptive,
                   predicted_wellbeing_scores, predicted_summary_sents,
                   timeline_to_results, error>>
    /\ UNCHANGED <<wsVars, unitVars>>

\* gold_wellbeing_scores taken in the reverse of the gold post order
gold_wellbeing_scores_reversed ==
    [i \in 1..Len(post_ids) |->
        gold_datum.post_level[post_ids[Len(post_ids) + 1 - i]].wellbeing_score]

\* gold_wellbeing_scores of line 145
gold_wellbeing_scores ==
    [i \in 1..Len(post_ids) |-> gold_datum.post_level[post_ids[i]].wellbeing_score]

\* lines 142-155
TaskA2 ==
    /\ pc = "A2"
    /\ IF do_tasks.A2
       THEN LET r == compute_mse(gold_wellbeing_scores, predicted_wellbeing_scores,
                                 TRUE, TRUE, "")
            IN  IF r.raised THEN Raise("ValueError")
                ELSE /\ curr_results' = Append(curr_results, r.result)
                     /\ pc' = "B"
                     /\ UNCHANGED <<gold_data, submission_data, do_tasks, tl_i, post_i,
                                    predicted_spans_adaptive, predicted_spans_maladaptive,
                                    predicted_wellbeing_scores, predicted_summary_sents,
                                    timeline_to_results, error>>
       ELSE /\ pc' = "B"
            /\ UNCHANGED <<gold_data, submission_data, do_tasks, tl_i, post_i,
                           predicted_spans_adaptive, predicted_spans_maladaptive,
                           predicted_wellbeing_scores, predicted_summary_sents,
                           curr_results, timeline_to_results, error>>
    /\ UNCHANGED <<wsVars, unitVars>>

\* gold_summary_sents of line 162
gold_summary_sents ==
    [i \in 1..Len(post_ids) |-> gold_datum.post_level[post_ids[i]].summary_sents]

\* lines 160-178
TaskB ==
    /\ pc = "B"
    /\ curr_results' =
         IF do_tasks.B
         THEN curr_results \o PostNliResults(gold_summary_sents, predicted_summary_sents, 1)
         ELSE curr_results
    /\ pc' = "C"
    /\ UNCHANGED <<gold_data, submission_data, do_tasks, tl_i, post_i,
                   predicted_spans_adaptive, predicted_spans_maladaptive,
                   predicted_wellbeing_scores, predicted_summary_sents,
                   timeline_to_results, error>>
    /\ UNCHANGED <<wsVars, unitVars>>

\* task C leaving out a timeline whose predicted summary has no sentence
TaskCSkippingEmpty ==
    /\ pc = "C"
    /\ curr_results' =
         IF do_tasks.C
         THEN LET timeline_summary == submission_data[timeline_id].timeline_level.summary
                  predicted_summary_sents_timeline ==
                      IF timeline_summary.k = "str"
                      THEN StripNonBlank(sent_tokenize(timeline_summary))
                      ELSE <<>>
                  gold_summary_sents_timeline == gold_datum.timeline_level.summary_sents
              IN  IF gold_summary_sents_timeline # <<>>
                     /\ predicted_summary_sents_timeline # <<>>
                  THEN Append(curr_results,
                              compute_timeline_nli_gold(gold_summary_sents_timeline,
                                                        predicted_summary_sents_timeline))
                  ELSE curr_results
         ELSE curr_results
    /\ pc' = "store"
    /\ UNCHANGED <<gold_data, submission_data, do_tasks, tl_i, post_i,
                   predicted_spans_adaptive, predicted_spans_maladaptive,
                   predicted_wellbeing_scores, predicted_summary_sents,
                   timeline_to_results, error>>
    /\ UNCHANGED <<wsVars, unitVars>>

\* lines 180-199
TaskC ==
    /\ pc = "C"
    /\ curr_results' =
         IF do_tasks.C
         THEN LET timeline_summary == submission_data[timeline_id].timeline_level.summary
                  predicted_summary_sents_timeline ==
                      IF timeline_summary.k = "str"
                      THEN StripNonBlank(sent_tokenize(timeline_summary))
                      ELSE <<>>
                  gold_summary_sents_timeline == gold_datum.timeline_level.summary_sents
              IN  IF gold_summary_sents_timeline # <<>>
                  THEN Append(curr_results,
                              compute_timeline_nli_gold(gold_summary_sents_timeline,
                                                        predicted_summary_sents_timeline))
                  ELSE curr_results
         ELSE curr_results
    /\ pc' = "store"
    /\ UNCHANGED <<gold_data, submission_data, do_tasks, tl_i, post_i,
                   predicted_spans_adaptive, predicted_spans_maladaptive,
                   predicted_wellbeing_scores, predicted_summary_sents,
                   timeline_to_results, error>>
    /\ UNCHANGED <<wsVars, unitVars>>

\* line 201, and on to the next gold timeline
StoreTimeline ==
    /\ pc = "store"
    /\ timeline_to_results' =
         Update(timeline_to_results, [t \in {timeline_id} |-> curr_results])
    /\ tl_i' = tl_i + 1
    /\ pc' = "timeline"
    /\ UNCHANGED <<gold_data, submission_data, do_tasks, post_i,
                   predicted_spans_adaptive, predicted_spans_maladaptive,
                   predicted_wellbeing_scores, predicted_summary_sents, curr_results,
                   error>>
    /\ UNCHANGED <<wsVars, unitVars>>

\* line 203
ReturnResults ==
    /\ pc = "timeline"
    /\ tl_i > Len(TimelineOrder)
    /\ pc' = "returned"
    /\ UNCHANGED <<gold_data, submission_data, do_tasks, tl_i, post_i,
                   predicted_spans_adaptive, predicted_spans_maladaptive,
                   predicted_wellbeing_scores, predicted_summary_sents, curr_results,
                   timeline_to_results, error>>
    /\ UNCHANGED <<wsVars, unitVars>>

Next ==
    \/ StartTimeline
    \/ ReadPost
    \/ TaskA1
    \/ TaskA2
    \/ TaskB
    \/ TaskC
    \/ StoreTimeline
    \/ ReturnResults

Spec == RunInit /\ [][Next]_vars

\* ------------------------------- compute_span_metrics, step by step
\* most spans of a span list
MaxSpans == 2

\* the spans a list may hold: words "w1".."w3" with whitespace, or blank
SpanLists ==
    UNION {[1..n -> {<<"w1">>, <<" ">>, <<" ", "w2", " ", "w3">>, <<>>}] :
              n \in 0..MaxSpans}

\* the F values the BERTScore model may give, in 1/1000 (rescaled with
\* baseline, so below zero too)
BertScores == {-100, 400, 1000}

\* a product and a mean of fractions; the mean of no value is nan (den = 0)
FracTimes(x, f) == [num |-> x * f.num, den |-> f.den]
FracMean(xs, den) == [num |-> SumSeq(xs), den |-> den * Len(xs)]

SpanInit ==
    /\ ss_gold_in \in SpanLists
    /\ ss_predicted_in \in SpanLists
    /\ ss_gold_spans = <<>>
    /\ ss_predicted_spans = <<>>
    /\ weight = [num |-> 1, den |-> 1]
    /\ curr_recalls = <<>>
    /\ curr_recalls_weighted = <<>>
    /\ ss_result = EmptyDict
    /\ ss_pc = "call"
    /\ MseIdle
    /\ RunIdle
    /\ NliIdle
    /\ ValIdle
    /\ FileIdle

\* lines 41-42
SpanStrip ==
    /\ ss_pc = "call"
    /\ ss_gold_spans' = StripNonBlank(ss_gold_in)
    /\ ss_predicted_spans' = StripNonBlank(ss_predicted_in)
    /\ ss_pc' = "stripped"
    /\ UNCHANGED <<ss_gold_in, ss_predicted_in, weight, curr_recalls,
                   curr_recalls_weighted, ss_result>>
    /\ UNCHANGED <<wsVars, runVars, nliVars, valVars, fileVars>>

\* lines 44-45
SpanEmpty ==
    /\ ss_pc = "stripped"
    /\ ss_predicted_spans = <<>>
    /\ ss_result' = score_empty_predictions
    /\ ss_pc' = "done"
    /\ UNCHANGED <<ss_gold_in, ss_predicted_in, ss_gold_spans, ss_predicted_spans,
                   weight, curr_recalls, curr_recalls_weighted>>
    /\ UNCHANGED <<wsVars, runVars, nliVars, valVars, fileVars>>

\* lines 49-60 with the weight g/p never capped at 1.0
SpanWeightUncapped ==
    /\ ss_pc = "stripped"
    /\ ss_predicted_spans # <<>>
    /\ weight' = [num |-> NumTokens(ss_gold_spans), den |-> NumTokens(ss_predicted_spans)]
    /\ curr_recalls' = <<>>
    /\ curr_recalls_weighted' = <<>>
    /\ ss_pc' = "loop"
    /\ UNCHANGED <<ss_gold_in, ss_predicted_in, ss_gold_spans, ss_predicted_spans,
                   ss_result>>
    /\ UNCHANGED <<wsVars, runVars, nliVars, valVars, fileVars>>

\* lines 49-60
SpanWeight ==
    /\ ss_pc = "stripped"
    /\ ss_predicted_spans # <<>>
    /\ LET num_gold_spans_tokens == NumTokens(ss_gold_spans)
           num_pred_spans_tokens == NumTokens(ss_predicted_spans)
       IN  weight' = IF num_gold_spans_tokens < num_pred_spans_tokens
                     THEN [num |-> num_gold_spans_tokens, den |-> num_pred_spans_tokens]
                     ELSE [num |-> 1, den |-> 1]
    /\ curr_recalls' = <<>>
    /\ curr_recalls_weighted' = <<>>
    /\ ss_pc' = "loop"
    /\ UNCHANGED <<ss_gold_in, ss_predicted_in, ss_gold_spans, ss_predicted_spans,
                   ss_result>>
    /\ UNCHANGED <<wsVars, runVars, nliVars, valVars, fileVars>>

\* lines 63-69: one gold span against every predicted span
SpanGoldStep ==
    /\ ss_pc = "loop"
    /\ Len(curr_recalls) < Len(ss_gold_spans)
    /\ \E F \in [1..Len(ss_predicted_spans) -> BertScores] :
          LET score == NpMax(F)
          IN  /\ curr_recalls' = Append(curr_recalls, score)
              /\ curr_recalls_weighted' =
                    Append(curr_recalls_weighted, FracTimes(score, weight))
    /\ UNCHANGED <<ss_gold_in, ss_predicted_in, ss_gold_spans, ss_predicted_spans,
                   weight, ss_result, ss_pc>>
    /\ UNCHANGED <<wsVars, runVars, nliVars, valVars, fileVars>>

\* lines 71-80
SpanReturn ==
    /\ ss_pc = "loop"
    /\ Len(curr_recalls) = Len(ss_gold_spans)
    /\ ss_result' =
         [key \in {"bertscore_recall", "bertscore_weighted_recall"} |->
            [task |-> "A.1",
             value |-> IF key = "bertscore_recall"
                       THEN FracMean(curr_recalls, 1000)
                       ELSE FracMean([i \in 1..Len(curr_recalls_weighted) |->
                                         curr_recalls_weighted[i].num],
                                     1000 * weight.den)]]
    /\ ss_pc' = "done"
    /\ UNCHANGED <<ss_gold_in, ss_predicted_in, ss_gold_spans, ss_predicted_spans,
                   weight, curr_recalls, curr_recalls_weighted>>
    /\ UNCHANGED <<wsVars, runVars, nliVars, valVars, fileVars>>

SpanNext == SpanStrip \/ SpanEmpty \/ SpanWeight \/ SpanGoldStep \/ SpanReturn

SpecSpan == SpanInit /\ [][SpanNext]_vars

\* --------------------------------- compute_nli_scores, step by step
\* most sentences of a sentence list
MaxSents == 2

\* lists of at most MaxSents sentences out of T
SentLists(T) == UNION {[1..n -> T] : n \in 0..MaxSents}

\* task, prefix and source_name as the three callers pass them
NliArgs ==
    {[task |-> "B", prefix |-> "post", source_name |-> "gold"],
     [task |-> "C", prefix |-> "timeline", source_name |-> "gold"],
     [task |-> "B", prefix |-> "post", source_name |-> "evidence"]}

\* the softmax outputs the NLI model may give, in 1/1000
NliOutputs ==
    {[entailment |-> 900, contradiction |-> 50],
     [entailment |-> 100, contradiction |-> 800],
     [entailment |-> 300, contradiction |-> 300]}

\* the dict of lines 68-81
NliDict(args, mean_consistency, max_entailment, max_contradiction) ==
    LET k1 == args.prefix \o "_mean_consistency_" \o args.source_name
        k2 == args.prefix \o "_max_entailment_" \o args.source_name
        k3 == args.prefix \o "_max_contradiction_" \o args.source_name
    IN  [key \in {k1, k2, k3} |->
            [task |-> args.task,
             value |-> IF key = k1 THEN mean_consistency
                       ELSE IF key = k2 THEN max_entailment ELSE max_contradiction]]

\* lines 60-62 with the mean contradiction itself taken as consistency
NliMetricsMeanContradiction(args, entail, contradict) ==
    NliDict(args,
            [num |-> SumSeq(contradict), den |-> 1000 * Len(contradict)],
            [num |-> NpMax(entail), den |-> 1000],
            [num |-> NpMax(contradict), den |-> 1000])

\* lines 57-62 and 68-81, for at least one pair
NliMetrics(args, entail, contradict) ==
    NliDict(args,
            [num |-> 1000 * Len(contradict) - SumSeq(contradict),
             den |-> 1000 * Len(contradict)],
            [num |-> NpMax(entail), den |-> 1000],
            [num |-> NpMax(contradict), den |-> 1000])

NliInit ==
    /\ nli_args \in NliArgs
    /\ source_sents \in SentLists({<<"g1">>, <<"g2">>})
    /\ predicted_sents \in SentLists({<<"p1">>, <<"p2">>})
    /\ source_i = 0
    /\ predicted_j = 0
    /\ nli_calls = <<>>
    /\ entail_scores = <<>>
    /\ contradict_scores = <<>>
    /\ nli_result = EmptyDict
    /\ nli_pc = "call"
    /\ MseIdle
    /\ RunIdle
    /\ SpanIdle
    /\ ValIdle
    /\ FileIdle

\* the defaults with no contradiction at all for an empty prediction
NliEmptyBestCase ==
    /\ nli_pc = "call"
    /\ predicted_sents = <<>>
    /\ nli_result' = NliDict(nli_args, [num |-> 0, den |-> 1], [num |-> 0, den |-> 1],
                             [num |-> 0, den |-> 1])
    /\ nli_pc' = "done"
    /\ UNCHANGED <<nli_args, source_sents, predicted_sents, source_i, predicted_j,
                   nli_calls, entail_scores, contradict_scores>>
    /\ UNCHANGED <<wsVars, runVars, spanVars, valVars, fileVars>>

\* lines 50, 63-66 and 68-81: no predicted sentence
NliEmpty ==
    /\ nli_pc = "call"
    /\ predicted_sents = <<>>
    /\ nli_result' = NliDict(nli_args, [num |-> 0, den |-> 1], [num |-> 0, den |-> 1],
                             [num |-> 1, den |-> 1])
    /\ nli_pc' = "done"
    /\ UNCHANGED <<nli_args, source_sents, predicted_sents, source_i, predicted_j,
                   nli_calls, entail_scores, contradict_scores>>
    /\ UNCHANGED <<wsVars, runVars, spanVars, valVars, fileVars>>

\* lines 50-51
NliStart ==
    /\ nli_pc = "call"
    /\ predicted_sents # <<>>
    /\ entail_scores' = <<>>
    /\ contradict_scores' = <<>>
    /\ source_i' = 1
    /\ predicted_j' = 1
    /\ nli_pc' = "pairs"
    /\ UNCHANGED <<nli_args, source_sents, predicted_sents, nli_calls, nli_result>>
    /\ UNCHANGED <<wsVars, runVars, spanVars, valVars, fileVars>>

\* lines 52-56: one call of _compute_nli_scores
NliPair ==
    /\ nli_pc = "pairs"
    /\ source_i <= Len(source_sents)
    /\ \E scores \in NliOutputs :
          /\ nli_calls' = Append(nli_calls,
                                 [premise |-> source_sents[source_i],
                                  hypothesis |-> predicted_sents[predicted_j],
                                  i |-> source_i, j |-> predicted_j,
                                  scores |-> scores])
          /\ entail_scores' = Append(entail_scores, scores.entailment)
          /\ contradict_scores' = Append(contradict_scores, scores.contradiction)
    /\ IF predicted_j < Len(predicted_sents)
       THEN predicted_j' = predicted_j + 1 /\ source_i' = source_i
       ELSE predicted_j' = 1 /\ source_i' = source_i + 1
    /\ UNCHANGED <<nli_args, source_sents, predicted_sents, nli_result, nli_pc>>
    /\ UNCHANGED <<wsVars, runVars, spanVars, valVars, fileVars>>

\* lines 57-61 without any pair: the mean of the empty array is nan, its
\* max raises ValueError
NliRaises ==
    /\ nli_pc = "pairs"
    /\ source_i > Len(source_sents)
    /\ entail_scores = <<>>
    /\ nli_pc' = "raised"
    /\ UNCHANGED <<nli_args, source_sents, predicted_sents, source_i, predicted_j,
                   nli_calls, entail_scores, contradict_scores, nli_result>>
    /\ UNCHANGED <<wsVars, runVars, spanVars, valVars, fileVars>>

\* lines 57-62 and 68-81
NliReturn ==
    /\ nli_pc = "pairs"
    /\ source_i > Len(source_sents)
    /\ entail_scores # <<>>
    /\ nli_result' = NliMetrics(nli_args, entail_scores, contradict_scores)
    /\ nli_pc' = "done"
    /\ UNCHANGED <<nli_args, source_sents, predicted_sents, source_i, predicted_j,
                   nli_calls, entail_scores, contradict_scores>>
    /\ UNCHANGED <<wsVars, runVars, spanVars, valVars, fileVars>>

NliNext == NliEmpty \/ NliStart \/ NliPair \/ NliRaises \/ NliReturn

SpecNli == NliInit /\ [][NliNext]_vars

\* ------------------------------------------------------------ Validator
\* JSON objects and arrays: a dict keeps its keys in file order
Dict(order, items) == [k |-> "dict", order |-> order, items |-> items]
JList(elems) == [k |-> "list", v |-> elems]
Has(d, key) == key \in DOMAIN d.items

\* "not x" of Python on a JSON value
Falsy(x) ==
    \/ x.k = "none"
    \/ x.k = "dict" /\ DOMAIN x.items = {}
    \/ x.k = "list" /\ x.v = <<>>
    \/ x.k \in {"int", "float", "bool"} /\ x.v = 0

\* isinstance(value, expected_type); bool is a subclass of int
IsInstance(value, expected_type) ==
    IF expected_type = "int" THEN value.k \in {"int", "bool"}
    ELSE value.k = expected_type

\* the default None of the timeline_id and post_id parameters
NoId == "<None>"
\* "if post_id" / "if timeline_id": None and the empty string are false
Truthy(id) == id \notin {NoId, ""}

\* the validator's fields, as a record the helpers hand on
Self ==
    [valid |-> valid, timelines_with_issues |-> timelines_with_issues,
     posts_with_issues |-> posts_with_issues, warnings |-> warnings]

\* Validator.log_timeline_issue
log_timeline_issue(self, tid) ==
    [self EXCEPT !.timelines_with_issues = @ \cup {tid}, !.valid = FALSE]

\* log_post_issue that does not hand the timeline on to log_timeline_issue
log_post_issue_only(self, tid, pid) ==
    [self EXCEPT !.posts_with_issues = @ \cup {<<tid, pid>>}, !.valid = FALSE]

\* Validator.log_post_issue
log_post_issue(self, tid, pid) ==
    log_timeline_issue([self EXCEPT !.posts_with_issues = @ \cup {<<tid, pid>>}], tid)

\* lines 67-72 and 84-89: where a failed check is recorded
LogIssue(self, tid, pid) ==
    IF Truthy(pid) /\ Truthy(tid) THEN log_post_issue(self, tid, pid)
    ELSE IF Truthy(tid) THEN log_timeline_issue(self, tid)
    ELSE [self EXCEPT !.valid = FALSE]

\* Validator.check_type: the result and the validator after it
check_type(self, value, expected_type, tid, pid) ==
    IF IsInstance(value, expected_type) THEN [ok |-> TRUE, self |-> self]
    ELSE [ok |-> FALSE, self |-> LogIssue(self, tid, pid)]

\* Validator.check_required_fields
check_required_fields(self, d, required_fields, tid, pid) ==
    IF required_fields \subseteq DOMAIN d.items THEN [ok |-> TRUE, self |-> self]
    ELSE [ok |-> FALSE, self |-> LogIssue(self, tid, pid)]

Warn(self, kind, tid, pid) ==
    [self EXCEPT !.warnings = @ \cup {[kind |-> kind, tid |-> tid, pid |-> pid]}]

\* Validator.validate_timeline_level
validate_timeline_level(self, timeline_level, tid) ==
    LET t == check_type(self, timeline_level, "dict", tid, NoId)
    IN  IF ~t.ok THEN t.self
        ELSE IF Falsy(timeline_level)
        THEN [log_timeline_issue(self, tid) EXCEPT !.valid = FALSE]
        ELSE LET r == check_required_fields(self, timeline_level, {"summary"}, tid, NoId)
             IN  IF ~r.ok THEN r.self
                 ELSE LET summary == timeline_level.items["summary"]
                          c == check_type(self, summary, "str", tid, NoId)
                      IN  IF summary.k = "str"
                             /\ StripNonBlank(SummaryTexts[summary.v]) = <<>>
                          THEN Warn(c.self, "empty_summary", tid, NoId)
                          ELSE c.self

\* lines 316-326 and 338-350: the loop over the elements of an evidence list
RECURSIVE CheckEvidence(_, _, _, _)
CheckEvidence(self, elems, tid, pid) ==
    IF elems = <<>> THEN self
    ELSE CheckEvidence(check_type(self, Head(elems), "str", tid, pid).self,
                       Tail(elems), tid, pid)

\* lines 306-350: one of the two evidence fields
ValidateEvidence(self, post_data, field, tid, pid) ==
    IF ~Has(post_data, field) THEN self
    ELSE LET c == check_type(self, post_data.items[field], "list", tid, pid)
         IN  IF c.ok THEN CheckEvidence(c.self, post_data.items[field].v, tid, pid)
             ELSE c.self

\* lines 359-382 with a float score taken for a type error
ValidateScoreRejectingFloat(self, post_data, tid, pid) ==
    IF ~Has(post_data, "wellbeing_score") THEN self
    ELSE LET score == post_data.items["wellbeing_score"]
             c == check_type(self, score, "int", tid, pid)
         IN  IF score.k = "none" THEN self
             ELSE IF ~c.ok THEN c.self
             ELSE IF Scaled(score) < 1 * FloatScale \/ Scaled(score) > 10 * FloatScale
             THEN log_post_issue(self, tid, pid)
             ELSE self

\* lines 359-382: the wellbeing score
ValidateScore(self, post_data, tid, pid) ==
    IF ~Has(post_data, "wellbeing_score") THEN self
    ELSE LET score == post_data.items["wellbeing_score"]
             warned == IF score.k = "float" THEN Warn(self, "float_score", tid, pid)
                       ELSE self
             c == check_type(self, score, "int", tid, pid)
         IN  IF score.k = "none" THEN self
             ELSE IF score.k # "float" /\ ~c.ok THEN c.self
             ELSE IF Scaled(score) < 1 * FloatScale \/ Scaled(score) > 10 * FloatScale
             THEN log_post_issue(warned, tid, pid)
             ELSE warned

\* Validator.validate_post_dict
validate_post_dict(self, post_data, tid, pid) ==
    LET t == check_type(self, post_data, "dict", tid, pid)
    IN  IF ~t.ok THEN t.self
        ELSE IF Falsy(post_data)
        THEN log_post_issue([self EXCEPT !.valid = FALSE], tid, pid)
        ELSE LET s1 == check_required_fields(self, post_data, PostKeys, tid, pid).self
                 s2 == ValidateEvidence(s1, post_data, "adaptive_evidence", tid, pid)
                 s3 == ValidateEvidence(s2, post_data, "maladaptive_evidence", tid, pid)
                 s4 == IF Has(post_data, "summary")
                       THEN check_type(s3, post_data.items["summary"], "str", tid, pid).self
                       ELSE s3
             IN  ValidateScore(s4, post_data, tid, pid)

\* self.timeline_id_to_post_ids.get(timeline_id, []) as a set
ExpectedPostIds(tid) ==
    IF tid \in DOMAIN timeline_id_to_post_ids
    THEN {timeline_id_to_post_ids[tid][i] : i \in 1..Len(timeline_id_to_post_ids[tid])}
    ELSE {}

\* the elements of a set one after the other
RECURSIVE LogMissingPosts(_, _, _)
LogMissingPosts(self, tid, missing_posts) ==
    IF missing_posts = {} THEN self
    ELSE LET missing_post == CHOOSE x \in missing_posts : TRUE
         IN  LogMissingPosts(log_post_issue(self, tid, missing_post), tid,
                             missing_posts \ {missing_post})

\* Validator.validate_post_level up to its loop over the posts (lines
\* 236-271): the validator after it, and whether the loop is entered
validate_post_level(self, post_level, tid) ==
    LET t == check_type(self, post_level, "dict", tid, NoId)
    IN  IF ~t.ok THEN [self |-> t.self, loop |-> FALSE]
        ELSE IF Falsy(post_level)
        THEN [self |-> [log_timeline_issue(self, tid) EXCEPT !.valid = FALSE],
              loop |-> FALSE]
        ELSE LET actual_post_ids == DOMAIN post_level.items
                 missing_posts == ExpectedPostIds(tid) \ actual_post_ids
                 unexpected_posts == actual_post_ids \ ExpectedPostIds(tid)
                 s1 == LogMissingPosts(self, tid, missing_posts)
             IN  [self |-> IF unexpected_posts # {}
                           THEN Warn(s1, "unexpected_posts", tid, NoId) ELSE s1,
                  loop |-> TRUE]

\* Validator.validate_timeline_dict up to the loop over the posts
validate_timeline_dict(self, timeline_data, tid) ==
    LET t == check_type(self, timeline_data, "dict", tid, NoId)
    IN  IF ~t.ok THEN [self |-> t.self, loop |-> FALSE]
        ELSE IF Falsy(timeline_data)
        THEN [self |-> log_timeline_issue([self EXCEPT !.valid = FALSE], tid),
              loop |-> FALSE]
        ELSE LET s1 == check_required_fields(self, timeline_data,
                                             {"timeline_level", "post_level"},
                                             tid, NoId).self
                 s2 == IF Has(timeline_data, "timeline_level")
                       THEN validate_timeline_level(
                                s1, timeline_data.items["timeline_level"], tid)
                       ELSE s1
             IN  IF Has(timeline_data, "post_level")
                 THEN validate_post_level(s2, timeline_data.items["post_level"], tid)
                 ELSE [self |-> s2, loop |-> FALSE]

\* ------------------------------------------- inputs of the validator
\* the timeline-to-post mapping __init__ loads
Mapping == [t \in {"t1", "t2"} |-> IF t = "t1" THEN <<"p1", "p2">> ELSE <<"p1">>]

\* a dict without one of its keys, and with one value changed
Without(d, key) ==
    Dict(SelectSeq(d.order, LAMBDA x : x # key),
         [x \in DOMAIN d.items \ {key} |-> d.items[x]])
With(d, key, value) ==
    Dict(d.order, [x \in DOMAIN d.items |-> IF x = key THEN value ELSE d.items[x]])

EmptyJDict == Dict(<<>>, EmptyDict)

\* a post as the task asks for it
GoodPostData ==
    Dict(<<"adaptive_evidence", "maladaptive_evidence", "summary", "wellbeing_score">>,
         [adaptive_evidence |-> JList(<<StrV(2)>>),
          maladaptive_evidence |-> JList(<<>>),
          summary |-> StrV(2),
          wellbeing_score |-> IntV(7)])

\* a post with at most one deviation; the wellbeing scores it may give are
\* null, 11, 0, 7.0, 7.5, 11.5, "7", true and a list
PostDataCases ==
    {GoodPostData, JList(<<>>), EmptyJDict,
     Without(GoodPostData, "summary"), Without(GoodPostData, "wellbeing_score"),
     With(GoodPostData, "adaptive_evidence", StrV(2)),
     With(GoodPostData, "maladaptive_evidence", JList(<<StrV(2), IntV(3)>>)),
     With(GoodPostData, "summary", NoneV),
     With(GoodPostData, "summary", StrV(1))}
    \cup {With(GoodPostData, "wellbeing_score", w) :
            w \in {NoneV, IntV(11), IntV(0), FloatV(7 * FloatScale),
                   FloatV(7 * FloatScale + 1), FloatV(11 * FloatScale + 1),
                   StrV(1), BoolV(1), ListV}}

\* the post ids of a post_level, in file order: all expected ones, one
\* missing, one extra, one with the empty string for a key; at most one post
\* is taken from all the cases, the others are sound or a list
PostLevels ==
    UNION {{Dict(ids, [pid \in {ids[i] : i \in 1..Len(ids)} |->
                          cases[CHOOSE i \in 1..Len(ids) : ids[i] = pid]]) :
               cases \in {c \in [1..Len(ids) -> PostDataCases] :
                             Cardinality({i \in DOMAIN c :
                                             c[i] \notin {GoodPostData, JList(<<>>)}}) <= 1}} :
           ids \in {<<"p1", "p2">>, <<"p2">>, <<"p1", "p2", "px">>,
                   <<"p1", "", "p2">>}}

GoodTimelineLevel == Dict(<<"summary">>, [summary |-> StrV(2)])
TimelineData(timeline_level, post_level) ==
    Dict(<<"timeline_level", "post_level">>,
         [timeline_level |-> timeline_level, post_level |-> post_level])
GoodPostLevel(ids) == Dict(ids, [pid \in {ids[i] : i \in 1..Len(ids)} |-> GoodPostData])

\* a value that stands for "the key is not in the file"
Absent == [k |-> "absent"]

\* what the submission may hold for timeline t1
TimelineDataCases ==
    {TimelineData(GoodTimelineLevel, pl) :
        pl \in PostLevels}
    \cup {TimelineData(tl, GoodPostLevel(<<"p1", "p2">>)) :
            tl \in {JList(<<>>), EmptyJDict, Dict(<<"other">>, [other |-> NoneV]),
                    With(GoodTimelineLevel, "summary", NoneV),
                    With(GoodTimelineLevel, "summary", StrV(1))}}
    \cup {TimelineData(GoodTimelineLevel, pl) : pl \in {JList(<<>>), EmptyJDict}}
    \cup {Without(TimelineData(GoodTimelineLevel, GoodPostLevel(<<"p1", "p2">>)), key) :
            key \in {"timeline_level", "post_level"}}
    \cup {JList(<<>>), EmptyJDict, Absent}

\* the root of a file with the given entries for "t1", an extra timeline
\* and "t2", in this order
Root(t1, extra_id, extra, t2) ==
    LET entries == [x \in {"t1", extra_id, "t2"} |->
                       IF x = "t1" THEN t1 ELSE IF x = "t2" THEN t2 ELSE extra]
        order == SelectSeq(<<"t1", extra_id, "t2">>, LAMBDA x : entries[x] # Absent)
    IN  Dict(order, [x \in {order[i] : i \in 1..Len(order)} |-> entries[x]])

\* what json.load may give, and a file that cannot be read or parsed
Unreadable == [k |-> "unreadable"]
Submissions ==
    {Root(t1, extra_id, extra, t2) :
        t1 \in TimelineDataCases,
        extra_id \in {"tx", ""},
        extra \in {Absent, JList(<<>>),
                   TimelineData(GoodTimelineLevel, GoodPostLevel(<<"px">>))},
        t2 \in {Absent, JList(<<>>), TimelineData(GoodTimelineLevel, GoodPostLevel(<<"p1">>))}}
    \cup {JList(<<>>), JList(<<NoneV>>), Unreadable}

\* ------------------------------------ validate_file and main, step by step
ValInit ==
    /\ timeline_id_to_post_ids = Mapping
    /\ data \in Submissions
    /\ valid = TRUE
    /\ timelines_with_issues = {}
    /\ posts_with_issues = {}
    /\ warnings = {}
    /\ val_tl = 0
    /\ val_post = 0
    /\ validated_timelines = {}
    /\ validated_posts = {}
    /\ exit_code = -1
    /\ val_pc = "file"
    /\ MseIdle
    /\ RunIdle
    /\ SpanIdle
    /\ NliIdle
    /\ FileIdle

\* the validator's fields set from a record of them
SetSelf(self) ==
    /\ valid' = self.valid
    /\ timelines_with_issues' = self.timelines_with_issues
    /\ posts_with_issues' = self.posts_with_issues
    /\ warnings' = self.warnings

\* lines 102-127: the file is read and its root checked
ValRoot ==
    /\ val_pc = "file"
    /\ IF data = Unreadable \/ Falsy(data)
       THEN /\ valid' = FALSE
            /\ val_pc' = "validated"
            /\ UNCHANGED <<timelines_with_issues, posts_with_issues, warnings>>
       ELSE LET c == check_type(Self, data, "dict", NoId, NoId)
            IN  /\ SetSelf(c.self)
                /\ val_pc' = IF c.ok THEN "mapping" ELSE "validated"
    /\ UNCHANGED <<timeline_id_to_post_ids, data, val_tl, val_post, validated_timelines,
                   validated_posts, exit_code>>
    /\ UNCHANGED <<wsVars, runVars, spanVars, nliVars, fileVars>>

\* lines 129-148 recording nothing for a missing timeline but valid = False
ValMappingNotLogging ==
    /\ val_pc = "mapping"
    /\ LET expected_timelines == DOMAIN timeline_id_to_post_ids
           actual_timelines == DOMAIN data.items
       IN  /\ valid' = (valid /\ expected_timelines \ actual_timelines = {})
           /\ warnings' = IF actual_timelines \ expected_timelines # {}
                          THEN Warn(Self, "unexpected_timelines", NoId, NoId).warnings
                          ELSE warnings
    /\ val_tl' = 1
    /\ val_pc' = "timelines"
    /\ UNCHANGED <<timeline_id_to_post_ids, data, timelines_with_issues,
                   posts_with_issues, val_post, validated_timelines, validated_posts,
                   exit_code>>
    /\ UNCHANGED <<wsVars, runVars, spanVars, nliVars, fileVars>>

\* lines 129-148: the timelines of the mapping against those of the file
ValMapping ==
    /\ val_pc = "mapping"
    /\ LET expected_timelines == DOMAIN timeline_id_to_post_ids
           actual_timelines == DOMAIN data.items
           missing_timelines == expected_timelines \ actual_timelines
           unexpected_timelines == actual_timelines \ expected_timelines
       IN  /\ valid' = (valid /\ missing_timelines = {})
           /\ timelines_with_issues' = timelines_with_issues \cup missing_timelines
           /\ warnings' = IF unexpected_timelines # {}
                          THEN Warn(Self, "unexpected_timelines", NoId, NoId).warnings
                          ELSE warnings
    /\ val_tl' = 1
    /\ val_pc' = "timelines"
    /\ UNCHANGED <<timeline_id_to_post_ids, data, posts_with_issues, val_post,
                   validated_timelines, validated_posts, exit_code>>
    /\ UNCHANGED <<wsVars, runVars, spanVars, nliVars, fileVars>>

\* the timeline entry the loop of line 151 is at
val_timeline_id == data.order[val_tl]
timeline_data == data.items[val_timeline_id]

\* lines 151-157: validate_timeline_dict for one entry, up to its posts
ValTimeline ==
    /\ val_pc = "timelines"
    /\ val_tl <= Len(data.order)
    /\ LET r == validate_timeline_dict(Self, timeline_data, val_timeline_id)
       IN  /\ SetSelf(r.self)
           /\ IF r.loop
              THEN val_pc' = "posts" /\ val_post' = 1 /\ val_tl' = val_tl
              ELSE val_pc' = "timelines" /\ val_post' = 0 /\ val_tl' = val_tl + 1
    /\ validated_timelines' = validated_timelines \cup {val_timeline_id}
    /\ UNCHANGED <<timeline_id_to_post_ids, data, validated_posts, exit_code>>
    /\ UNCHANGED <<wsVars, runVars, spanVars, nliVars, fileVars>>

\* lines 273-281: validate_post_dict for one entry of post_level
ValPost ==
    /\ val_pc = "posts"
    /\ LET post_level == timeline_data.items["post_level"]
           post_id == post_level.order[val_post]
       IN  /\ SetSelf(validate_post_dict(Self, post_level.items[post_id],
                                         val_timeline_id, post_id))
           /\ validated_posts' = validated_posts \cup {<<val_timeline_id, post_id>>}
           /\ IF val_post < Len(post_level.order)
              THEN val_pc' = "posts" /\ val_post' = val_post + 1 /\ val_tl' = val_tl
              ELSE val_pc' = "timelines" /\ val_post' = 0 /\ val_tl' = val_tl + 1
    /\ UNCHANGED <<timeline_id_to_post_ids, data, validated_timelines, exit_code>>
    /\ UNCHANGED <<wsVars, runVars, spanVars, nliVars, fileVars>>

\* lines 159-168: the result is logged
ValFinish ==
    /\ val_pc = "timelines"
    /\ val_tl > Len(data.order)
    /\ val_pc' = "validated"
    /\ UNCHANGED <<timeline_id_to_post_ids, data, valid, timelines_with_issues,
                   posts_with_issues, warnings, val_tl, val_post, validated_timelines,
                   validated_posts, exit_code>>
    /\ UNCHANGED <<wsVars, runVars, spanVars, nliVars, fileVars>>

\* main, line 402
MainExit ==
    /\ val_pc = "validated"
    /\ exit_code' = IF valid THEN 0 ELSE 1
    /\ val_pc' = "exited"
    /\ UNCHANGED <<timeline_id_to_post_ids, data, valid, timelines_with_issues,
                   posts_with_issues, warnings, val_tl, val_post, validated_timelines,
                   validated_posts>>
    /\ UNCHANGED <<wsVars, runVars, spanVars, nliVars, fileVars>>

ValNext == ValRoot \/ ValMapping \/ ValTimeline \/ ValPost \/ ValFinish \/ MainExit

SpecVal == ValInit /\ [][ValNext]_vars

\* ------------------------- the Validator's methods called in any order
\* the timeline ids and post ids the methods are called with
OpTimelineIds == {"t1", ""}
OpPostIds == {"p1", ""}

\* a validator as __init__ leaves it, no method called yet
OpsInit ==
    /\ timeline_id_to_post_ids = Mapping
    /\ data = NoneV
    /\ valid = TRUE
    /\ timelines_with_issues = {}
    /\ posts_with_issues = {}
    /\ warnings = {}
    /\ val_tl = 0
    /\ val_post = 0
    /\ validated_timelines = {}
    /\ validated_posts = {}
    /\ exit_code = -1
    /\ val_pc = "ops"
    /\ MseIdle
    /\ RunIdle
    /\ SpanIdle
    /\ NliIdle
    /\ FileIdle

\* a method other than validate_file has run: the fields are those of self
OpCall(self) ==
    /\ val_pc = "ops"
    /\ SetSelf(self)
    /\ UNCHANGED <<timeline_id_to_post_ids, data, val_tl, val_post, validated_timelines,
                   validated_posts, exit_code, val_pc>>
    /\ UNCHANGED <<wsVars, runVars, spanVars, nliVars, fileVars>>

OpLogTimelineIssue ==
    \E tid \in OpTimelineIds : OpCall(log_timeline_issue(Self, tid))

OpLogPostIssue ==
    \E tid \in OpTimelineIds, pid \in OpPostIds : OpCall(log_post_issue(Self, tid, pid))

OpCheckType ==
    \E value \in {NoneV, IntV(7), StrV(2), EmptyJDict}, expected_type \in {"int", "str", "dict"},
       tid \in OpTimelineIds \cup {NoId}, pid \in OpPostIds \cup {NoId} :
        OpCall(check_type(Self, value, expected_type, tid, pid).self)

OpCheckRequiredFields ==
    \E d \in {GoodPostData, Without(GoodPostData, "summary")},
       tid \in OpTimelineIds \cup {NoId}, pid \in OpPostIds \cup {NoId} :
        OpCall(check_required_fields(Self, d, PostKeys, tid, pid).self)

OpValidateTimelineLevel ==
    \E timeline_level \in {GoodTimelineLevel, JList(<<>>), EmptyJDict,
                            With(GoodTimelineLevel, "summary", NoneV)},
       tid \in OpTimelineIds :
        OpCall(validate_timeline_level(Self, timeline_level, tid))

OpValidatePostDict ==
    \E post_data \in PostDataCases, tid \in OpTimelineIds, pid \in OpPostIds :
        OpCall(validate_post_dict(Self, post_data, tid, pid))

\* validate_post_level and validate_timeline_dict up to the loop over the
\* posts; the loop's calls of validate_post_dict are calls like any other
OpValidatePostLevel ==
    \E post_level \in {GoodPostLevel(<<"p1", "p2">>), GoodPostLevel(<<"p1">>),
                        JList(<<>>), EmptyJDict},
       tid \in OpTimelineIds :
        OpCall(validate_post_level(Self, post_level, tid).self)

OpValidateTimelineDict ==
    \E td \in {TimelineData(GoodTimelineLevel, GoodPostLevel(<<"p1">>)),
                TimelineData(JList(<<>>), EmptyJDict),
                Without(TimelineData(GoodTimelineLevel, GoodPostLevel(<<"p1", "p2">>)),
                        "post_level"),
                JList(<<>>), EmptyJDict},
       tid \in OpTimelineIds :
        OpCall(validate_timeline_dict(Self, td, tid).self)

\* validate_file is called: its steps are those of ValRoot .. ValFinish
OpValidateFile ==
    /\ val_pc = "ops"
    /\ data' \in
          {Unreadable, JList(<<NoneV>>), EmptyJDict,
           Root(TimelineData(GoodTimelineLevel, GoodPostLevel(<<"p1", "p2">>)), "tx",
                JList(<<>>), Absent),
           Root(TimelineData(GoodTimelineLevel,
                             Dict(<<"p1">>, [p1 |-> With(GoodPostData, "wellbeing_score",
                                                         IntV(11))])),
                "", JList(<<>>),
                TimelineData(GoodTimelineLevel, GoodPostLevel(<<"p1">>)))}
    /\ val_pc' = "file"
    /\ UNCHANGED <<timeline_id_to_post_ids, valid, timelines_with_issues,
                   posts_with_issues, warnings, val_tl, val_post, validated_timelines,
                   validated_posts, exit_code>>
    /\ UNCHANGED <<wsVars, runVars, spanVars, nliVars, fileVars>>

\* validate_file has returned to a caller that goes on using the validator;
\* its locals are gone
OpValidateFileReturns ==
    /\ val_pc = "validated"
    /\ data' = NoneV
    /\ val_tl' = 0
    /\ val_post' = 0
    /\ validated_timelines' = {}
    /\ validated_posts' = {}
    /\ val_pc' = "ops"
    /\ UNCHANGED <<timeline_id_to_post_ids, valid, timelines_with_issues,
                   posts_with_issues, warnings, exit_code>>
    /\ UNCHANGED <<wsVars, runVars, spanVars, nliVars, fileVars>>

OpsNext ==
    \/ OpLogTimelineIssue
    \/ OpLogPostIssue
    \/ OpCheckType
    \/ OpCheckRequiredFields
    \/ OpValidateTimelineLevel
    \/ OpValidatePostDict
    \/ OpValidatePostLevel
    \/ OpValidateTimelineDict
    \/ OpValidateFile
    \/ ValRoot
    \/ ValMapping
    \/ ValTimeline
    \/ ValPost
    \/ ValFinish
    \/ OpValidateFileReturns

SpecOps == OpsInit /\ [][OpsNext]_vars

\* ------------------------------------------ parse_filename, step by step
\* longest path given to parse_filename, in characters
MaxPath == 5

\* the characters of a path: letters, the delimiter, the suffix dot and the
\* directory separator
Paths == UNION {[1..n -> {"t", "s", "_", ".", "/"}] : n \in 0..MaxPath}

RECURSIVE Split(_, _)
\* str.split(sep): the pieces between the separators, empty ones included
Split(s, sep) ==
    IF \A i \in 1..Len(s) : s[i] # sep THEN <<s>>
    ELSE LET k == CHOOSE i \in 1..Len(s) :
                     s[i] = sep /\ \A j \in 1..(i - 1) : s[j] # sep
         IN  <<SubSeq(s, 1, k - 1)>> \o Split(SubSeq(s, k + 1, Len(s)), sep)

\* Path(p).stem: the name, i.e. the last component that is neither empty nor
\* "." (the empty string without one), without its last suffix; a dot that
\* opens or ends the name starts no suffix
PathStem(p) ==
    LET parts == SelectSeq(Split(p, "/"), LAMBDA c : c # <<>> /\ c # <<".">>)
        name == IF parts = <<>> THEN <<>> ELSE parts[Len(parts)]
        dots == {i \in 1..Len(name) : name[i] = "."}
        last == CHOOSE i \in dots : \A j \in dots : j <= i
    IN  IF dots # {} /\ 1 < last /\ last < Len(name)
        THEN SubSeq(name, 1, last - 1)
        ELSE name

FileInit ==
    /\ submission_data_path \in Paths
    /\ stem = <<>>
    /\ eles = <<>>
    /\ team_name = <<>>
    /\ submission_id = <<>>
    /\ pf_pc = "call"
    /\ MseIdle
    /\ RunIdle
    /\ SpanIdle
    /\ NliIdle
    /\ ValIdle

\* line 51
PfStem ==
    /\ pf_pc = "call"
    /\ stem' = PathStem(submission_data_path)
    /\ pf_pc' = "stem"
    /\ UNCHANGED <<submission_data_path, eles, team_name, submission_id>>
    /\ UNCHANGED <<wsVars, runVars, spanVars, nliVars, valVars>>

\* line 52
PfSplit ==
    /\ pf_pc = "stem"
    /\ eles' = Split(stem, "_")
    /\ pf_pc' = "split"
    /\ UNCHANGED <<submission_data_path, stem, team_name, submission_id>>
    /\ UNCHANGED <<wsVars, runVars, spanVars, nliVars, valVars>>

\* lines 53-54
PfUnpack ==
    /\ pf_pc = "split"
    /\ Len(eles) = 2
    /\ team_name' = eles[1]
    /\ submission_id' = eles[2]
    /\ pf_pc' = "return"
    /\ UNCHANGED <<submission_data_path, stem, eles>>
    /\ UNCHANGED <<wsVars, runVars, spanVars, nliVars, valVars>>

\* lines 55-57
PfBareStem ==
    /\ pf_pc = "split"
    /\ Len(eles) # 2
    /\ team_name' = stem
    /\ submission_id' = stem
    /\ pf_pc' = "return"
    /\ UNCHANGED <<submission_data_path, stem, eles>>
    /\ UNCHANGED <<wsVars, runVars, spanVars, nliVars, valVars>>

\* line 58
PfReturn ==
    /\ pf_pc = "return"
    /\ pf_pc' = "done"
    /\ UNCHANGED <<submission_data_path, stem, eles, team_name, submission_id>>
    /\ UNCHANGED <<wsVars, runVars, spanVars, nliVars, valVars>>

FileNext == PfStem \/ PfSplit \/ PfUnpack \/ PfBareStem \/ PfReturn

SpecFile == FileInit /\ [][FileNext]_vars

\* ------------------------------------------- claims about compute_mse
\* indices of the caller's batch that carry a gold score
GoldIdx == {i \in 1..Len(in_y_trues) : in_y_trues[i] # NoneV}

\* ... and among them those with a null prediction / with a prediction
NullIdx == {i \in GoldIdx : in_y_preds[i] = NoneV}
KeptIdx == {i \in GoldIdx : in_y_preds[i] # NoneV}

RECURSIVE Ascending(_, _)
\* the members of the index set S up to n, in ascending order
Ascending(S, n) ==
    IF n = 0 THEN <<>>
    ELSE Ascending(S, n - 1) \o (IF n \in S THEN <<n>> ELSE <<>>)

GoldOrder == Ascending(GoldIdx, Len(in_y_trues))
KeptOrder == Ascending(KeptIdx, Len(in_y_trues))

\* the penalty substitution is over / the overall mse is in the result
Penalized == ws_pc \in {"penalized", "bins", "return", "done"}
Scored == ws_pc \in {"bins", "return", "done"}

\* the value of metric name, as a fraction
Metric(name) == result[name].value

\* C1: with do_penalize and every prediction at a gold-annotated index null
\* (non-empty gold batch), each null prediction becomes gold + 9, no error is
\* raised and the emitted mse is exactly 81.
ThmC1 ==
    (do_penalize /\ GoldIdx # {} /\ NullIdx = GoldIdx) =>
        /\ ws_pc # "raised"
        /\ Penalized =>
             y_preds = [j \in 1..Len(GoldOrder) |-> IntV(in_y_trues[GoldOrder[j]].v + 9)]
        /\ Scored =>
             /\ "mse" \in DOMAIN result
             /\ Metric("mse").num = 81 * Metric("mse").den

\* C1: gold [3,5,8] with all predictions null has been scored against [12,14,17]
WitC1 ==
    /\ ws_pc = "done"
    /\ do_penalize
    /\ in_y_trues = <<IntV(3), IntV(5), IntV(8)>>
    /\ in_y_preds = <<NoneV, NoneV, NoneV>>
    /\ y_preds = <<IntV(12), IntV(14), IntV(17)>>
    /\ Metric("mse").num = 81 * Metric("mse").den

\* the largest absolute error |gold - prediction| over the non-null
\* predictions of the batch, in units of 1/FloatScale
MaxObservedError ==
    LET errs == {Abs(Scaled(in_y_trues[i]) - Scaled(in_y_preds[i])) : i \in KeptIdx}
    IN  CHOOSE m \in errs : \A e \in errs : e <= m

\* C2: with do_penalize and some but not all predictions null, every null
\* prediction is replaced by gold + M, M the maximum absolute error
\* |gold - prediction| over the non-null predictions of the batch, and the
\* mse is taken over all gold-annotated pairs.
CexC2 ==
    (do_penalize /\ NullIdx # {} /\ KeptIdx # {} /\ Penalized) =>
        /\ Len(y_preds) = Len(GoldOrder)
        /\ \A j \in 1..Len(GoldOrder) :
             in_y_preds[GoldOrder[j]] = NoneV =>
                Scaled(y_preds[j]) = Scaled(in_y_trues[GoldOrder[j]]) + MaxObservedError
        /\ Scored => Metric("mse").den = Cardinality(GoldIdx) * FloatScale * FloatScale

\* C3: with do_penalize, the squared error charged to a post with a null
\* prediction is at least the squared error of every post of the batch with a
\* non-null prediction.
CexC3 ==
    (do_penalize /\ Penalized) =>
        \A i, j \in 1..Len(GoldOrder) :
            (in_y_preds[GoldOrder[i]] = NoneV /\ in_y_preds[GoldOrder[j]] # NoneV) =>
                SqErr(y_trues[i], y_preds[i]) >= SqErr(y_trues[j], y_preds[j])

\* the squared error of pair i of the caller's batch with the prediction cut
\* to an integer, in units of 1/FloatScale^2
TruncSqErr(i) ==
    LET d == (in_y_trues[i].v - Trunc(Scaled(in_y_preds[i]))) * FloatScale
    IN  d * d

\* C4: with do_penalize=False every pair with a null prediction is dropped:
\* the arrays hold exactly the pairs with gold and prediction both non-null
\* (the prediction cut to an integer), nothing is substituted, and the emitted
\* mse is the mean over those pairs alone; with no such pair
\* mean_squared_error raises.
ThmC4 ==
    ~do_penalize =>
        /\ Penalized =>
             /\ none_mask = <<>>
             /\ y_trues = [j \in 1..Len(KeptOrder) |-> in_y_trues[KeptOrder[j]]]
             /\ y_preds = [j \in 1..Len(KeptOrder) |->
                              IntV(Trunc(Scaled(in_y_preds[KeptOrder[j]])))]
        /\ Scored =>
             /\ KeptIdx # {}
             /\ Metric("mse").num =
                   SumSeq([i \in 1..Len(in_y_trues) |->
                              IF i \in KeptIdx THEN TruncSqErr(i) ELSE 0])
             /\ Metric("mse").den = Cardinality(KeptIdx) * FloatScale * FloatScale
        /\ ws_pc = "raised" => KeptIdx = {}

\* C4: a batch with a null and a non-null prediction has been scored leniently
WitC4 ==
    /\ ws_pc = "done"
    /\ ~do_penalize
    /\ NullIdx # {}
    /\ Cardinality(KeptIdx) >= 2
    /\ Len(y_preds) = Cardinality(KeptIdx)

\* the band metrics with their gold ranges
Bands == { [name |-> "mse_serious", lo |-> 1, hi |-> 4],
           [name |-> "mse_impaired", lo |-> 5, hi |-> 6],
           [name |-> "mse_minimal", lo |-> 7, hi |-> 10] }

InBand(i, b) == in_y_trues[i].v >= b.lo /\ in_y_trues[i].v <= b.hi

\* C5 as stated: in bin-wise mode a band metric is emitted if and only if some
\* gold-annotated post of the batch has its gold score in the band.
CexC5 ==
    (do_binwise /\ ws_pc = "done") =>
        \A b \in Bands : b.name \in DOMAIN result <=> \E i \in GoldIdx : InBand(i, b)

\* the pairs that survive preprocessing
SurvivingIdx == IF do_penalize THEN GoldIdx ELSE KeptIdx

\* C5 amended: a band metric is emitted if and only if some pair that survives
\* preprocessing (gold annotated and, when do_penalize is false, prediction
\* non-null) has its gold score in the band; a band without gold members never
\* gets a metric, and without bin-wise mode no band metric is emitted.
ThmC5 ==
    /\ \A b \in Bands : b.name \in DOMAIN result => \E i \in SurvivingIdx : InBand(i, b)
    /\ ws_pc = "done" =>
         \A b \in Bands :
            b.name \in DOMAIN result <=> (do_binwise /\ \E i \in SurvivingIdx : InBand(i, b))

\* C5: a bin-wise run ended with one band emitted, one band without gold
\* members skipped, and one band skipped though it has a gold member (its
\* prediction is null and do_penalize is false)
WitC5 ==
    /\ ws_pc = "done"
    /\ do_binwise
    /\ ~do_penalize
    /\ "mse_serious" \in DOMAIN result
    /\ "mse_impaired" \notin DOMAIN result
    /\ "mse_minimal" \notin DOMAIN result
    /\ \E i \in GoldIdx : in_y_trues[i].v = 8
    /\ ~ \E i \in GoldIdx : in_y_trues[i].v \in {5, 6}

\* the caller's batch without the pairs that have no gold score
AnnotatedTrues == [j \in 1..Len(GoldOrder) |-> in_y_trues[GoldOrder[j]]]
AnnotatedPreds == [j \in 1..Len(GoldOrder) |-> in_y_preds[GoldOrder[j]]]

\* C22: compute_mse drops every index whose gold score is null before any
\* other step: whatever such a pair predicts, the arrays after preprocessing,
\* the decision whether all predictions are null, the penalty (maximum
\* observed error), the mse, the band metrics and a raised error are those of
\* the batch without these pairs.
ThmC22 ==
    LET p == check_and_process_wellbeing_scores(AnnotatedTrues, AnnotatedPreds,
                                                do_penalize)
        whole == compute_mse(AnnotatedTrues, AnnotatedPreds, do_penalize, do_binwise, "")
    IN  /\ ws_pc # "call" =>
              /\ y_trues = p.y_trues
              /\ none_mask = p.none_mask
              /\ Len(y_trues) = Cardinality(SurvivingIdx)
              /\ do_penalize => (MaskAll(none_mask) <=> NullIdx = GoldIdx)
        /\ ws_pc = "processed" => y_preds = p.y_preds
        /\ Penalized => y_preds = PenalizeNones(p.y_trues, p.y_preds, p.none_mask)
        /\ Scored =>
              /\ ~whole.raised
              /\ Metric("mse") = whole.result["mse"].value
              /\ Metric("mse").den = Cardinality(SurvivingIdx) * FloatScale * FloatScale
        /\ ws_pc = "done" => (~whole.raised /\ result = whole.result)
        /\ ws_pc = "raised" => whole.raised

\* C22: a bin-wise, penalising run ended on a batch whose first pair has no
\* gold score but a prediction, and whose other pairs are one with a null
\* and one with a non-null prediction
WitC22 ==
    /\ ws_pc = "done"
    /\ do_penalize
    /\ do_binwise
    /\ in_y_trues = <<NoneV, IntV(3), IntV(8)>>
    /\ in_y_preds = <<FloatV(5 * FloatScale + 1), NoneV, IntV(3)>>
    /\ y_trues = <<IntV(3), IntV(8)>>
    /\ y_preds = <<IntV(8), IntV(3)>>
    /\ Metric("mse").num = 25 * Metric("mse").den

\* the pairs of the preprocessed batch whose gold score lies in band b
BandIdx(b) == {i \in 1..Len(y_trues) : y_trues[i].v >= b.lo /\ y_trues[i].v <= b.hi}

\* the band metrics in the result
EmittedBands == {b \in Bands : b.name \in DOMAIN result}

RECURSIVE SumOver(_, _)
\* the sum of f over the finite set S
SumOver(f, S) ==
    IF S = {} THEN 0
    ELSE LET x == CHOOSE y \in S : TRUE IN f[x] + SumOver(f, S \ {x})

\* C24: in bin-wise mode (gold scores within 1..10) every pair of the overall
\* mse lies in exactly one emitted band; each band mse is the mean, over the
\* band's pairs, of the squared errors of the batch's predictions after the
\* penalty substitution (no null prediction is left, no band is binned
\* again), so that the band mse times band size, summed over the emitted
\* bands, is the overall mse times the batch size.
ThmC24 ==
    (do_binwise /\ ws_pc = "done") =>
        /\ \A i \in 1..Len(y_trues) :
              /\ y_preds[i] # NoneV
              /\ Cardinality({b \in EmittedBands : i \in BandIdx(b)}) = 1
        /\ DOMAIN result = {"mse"} \cup {b.name : b \in EmittedBands}
        /\ \A b \in EmittedBands :
              /\ Metric(b.name).num =
                    SumOver([i \in BandIdx(b) |-> SqErr(y_trues[i], y_preds[i])], BandIdx(b))
              /\ Metric(b.name).den = Cardinality(BandIdx(b)) * FloatScale * FloatScale
        /\ SumOver([b \in EmittedBands |-> Metric(b.name).num], EmittedBands)
              = Metric("mse").num
        /\ SumOver([b \in EmittedBands |-> Metric(b.name).den], EmittedBands)
              = Metric("mse").den

\* C24: a penalising bin-wise run ended on a batch of three pairs in two
\* bands, with a null prediction replaced and a float prediction kept
WitC24 ==
    /\ ws_pc = "done"
    /\ do_binwise
    /\ do_penalize
    /\ Len(y_trues) = 3
    /\ Cardinality(EmittedBands) = 2
    /\ \E i \in GoldIdx : in_y_preds[i] = NoneV
    /\ \E i \in 1..Len(y_preds) : y_preds[i].k = "float"
    /\ Metric("mse").num > 0

\* -------------------------------------- claims about score_submission
\* the posts of the current timeline have been read up to, not including, i
PostsRead == IF pc \in {"timeline", "idle"} THEN 0 ELSE Len(predicted_wellbeing_scores)

\* the post the submission gives for post i of the current timeline
SubmittedPost(i) == submission_data[timeline_id].post_level[post_ids[i]]
HasPost(i) == post_ids[i] \in DOMAIN submission_data[timeline_id].post_level

\* the value the submission gives as wellbeing_score of post i (null if the
\* key is missing)
RawScore(i) == Get(SubmittedPost(i), "wellbeing_score", NoneV)

\* the integers written by the plainly numeric strings "7", " 8 " and "11"
PlainNumericStrings == {1, 2, 3}
PlainNumericValue(i) == IF i = 1 THEN 7 ELSE IF i = 2 THEN 8 ELSE 11

\* C6 as stated: what is passed to the wellbeing scorer for a post is the
\* integer itself, the integer a numeric string writes, and null for a float
\* or a value of any other type.
ClaimedNormalization(w) ==
    IF w.k \in {"int", "bool"} THEN w
    ELSE IF w.k = "str" /\ w.v \in PlainNumericStrings THEN IntV(PlainNumericValue(w.v))
    ELSE NoneV

\* C6: every predicted wellbeing score is normalized to an integer or null
\* before it reaches the scorer: numeric strings parsed, floats and other
\* types rejected to null.
CexC6 ==
    pc \in {"posts", "A1", "A2"} =>
        \A i \in 1..PostsRead :
            /\ predicted_wellbeing_scores[i].k \in {"int", "bool", "none"}
            /\ predicted_wellbeing_scores[i] = ClaimedNormalization(RawScore(i))

\* a value that is no integer 1..10 written as a number or a plain numeric string
MalformedOrOutOfRange(w) ==
    LET c == ClaimedNormalization(w)
    IN  ~(w.k \in {"int", "str"} /\ c.k = "int" /\ c.v >= 1 /\ c.v <= 10)

\* the predictions of the current timeline with every malformed or
\* out-of-range score taken as absent
ScoresTakenAsAbsent ==
    [i \in 1..Len(post_ids) |->
        IF MalformedOrOutOfRange(RawScore(i)) THEN NoneV
        ELSE ClaimedNormalization(RawScore(i))]

\* C7: a malformed or out-of-range predicted wellbeing score never raises out
\* of score_submission and is scored exactly as a null prediction would be.
CexC7 ==
    /\ ~(pc = "raised" /\ error = "ValueError" /\ post_i <= Len(post_ids))
    /\ (pc = "B" /\ do_tasks.A2) =>
          curr_results[Len(curr_results)] =
             compute_mse(gold_wellbeing_scores, ScoresTakenAsAbsent, TRUE, TRUE, "").result

\* C8: a post of the gold timeline that the submission lacks does not crash
\* score_submission: it is read as absent (null score, empty summary) and
\* the timeline's scoring goes on.
CexC8 ==
    /\ ~(pc = "raised" /\ error = "KeyError")
    /\ pc \in {"posts", "A1", "A2", "B", "C", "store"} =>
          \A i \in 1..PostsRead :
             ~HasPost(i) => /\ predicted_wellbeing_scores[i] = NoneV
                            /\ predicted_summary_sents[i] = <<>>

\* no post of the current gold timeline is annotated for wellbeing
NoGoldWellbeing ==
    \A i \in 1..Len(post_ids) : gold_datum.post_level[post_ids[i]].wellbeing_score = NoneV

\* C9: for a gold timeline without any wellbeing annotation task A.2 is
\* skipped silently: no error leaves compute_mse and score_submission goes on.
CexC9 ==
    (tl_i <= Len(TimelineOrder) /\ pc # "timeline" /\ NoGoldWellbeing /\ do_tasks.A2) =>
        ~(pc = "raised" /\ error = "ValueError" /\ post_i > Len(post_ids))

\* the task B results among a timeline's results
PostNliPart(results) ==
    SelectSeq(results, LAMBDA d : "post_mean_consistency_gold" \in DOMAIN d)

\* the posts of the current timeline with a non-empty gold summary, in gold order
SummarizedPosts ==
    Ascending({i \in 1..Len(post_ids) :
                  gold_datum.post_level[post_ids[i]].summary_sents # <<>>},
              Len(post_ids))

\* the worst-case defaults of an empty predicted summary
WorstCaseB ==
    [key \in {"post_mean_consistency_gold", "post_max_entailment_gold",
              "post_max_contradiction_gold"} |->
        [task |-> "B",
         value |-> IF key = "post_max_contradiction_gold" THEN [num |-> 1, den |-> 1]
                   ELSE [num |-> 0, den |-> 1]]]

\* the task B result of post i of the current timeline
ExpectedB(i) ==
    IF predicted_summary_sents[i] = <<>> THEN WorstCaseB
    ELSE compute_post_nli_gold(gold_datum.post_level[post_ids[i]].summary_sents,
                               predicted_summary_sents[i])

\* C10: with task B active, one task-B result is appended per post with a
\* non-empty gold summary, in gold order, and none for a post with an empty
\* gold summary; an empty predicted summary is scored with the worst-case
\* defaults, not skipped.  Without task B there is none.
ThmC10 ==
    pc \in {"C", "store"} =>
        PostNliPart(curr_results) =
            IF do_tasks.B
            THEN [j \in 1..Len(SummarizedPosts) |-> ExpectedB(SummarizedPosts[j])]
            ELSE <<>>

\* C10: a timeline of two posts, the first without gold summary, the second
\* with a gold summary and an empty predicted one, got exactly the one
\* worst-case result
WitC10 ==
    /\ pc = "store"
    /\ do_tasks.B
    /\ Len(post_ids) = 2
    /\ gold_datum.post_level[post_ids[1]].summary_sents = <<>>
    /\ gold_datum.post_level[post_ids[2]].summary_sents # <<>>
    /\ predicted_summary_sents[2] = <<>>
    /\ PostNliPart(curr_results) = <<WorstCaseB>>

\* the task C results among a timeline's results
TimelineNliPart(results) ==
    SelectSeq(results, LAMBDA d : "timeline_mean_consistency_gold" \in DOMAIN d)

\* the worst-case defaults of an empty predicted timeline summary
WorstCaseC ==
    [key \in {"timeline_mean_consistency_gold", "timeline_max_entailment_gold",
              "timeline_max_contradiction_gold"} |->
        [task |-> "C",
         value |-> IF key = "timeline_max_contradiction_gold" THEN [num |-> 1, den |-> 1]
                   ELSE [num |-> 0, den |-> 1]]]

\* the task C result of the current timeline
ExpectedC ==
    LET timeline_summary == submission_data[timeline_id].timeline_level.summary
    IN  IF timeline_summary.k # "str" THEN WorstCaseC
        ELSE compute_timeline_nli_gold(gold_datum.timeline_level.summary_sents,
                                       StripNonBlank(SummaryTexts[timeline_summary.v]))

\* C11: with task C active a timeline gets exactly one task-C result if its
\* gold timeline summary has sentences and none otherwise; a predicted
\* timeline summary that is no string is scored as an empty prediction.
\* Without task C there is none.
ThmC11 ==
    pc = "store" =>
        TimelineNliPart(curr_results) =
            IF do_tasks.C /\ gold_datum.timeline_level.summary_sents # <<>>
            THEN <<ExpectedC>>
            ELSE <<>>

\* C11: a timeline with a gold summary and a null predicted summary got the
\* one worst-case result
WitC11 ==
    /\ pc = "store"
    /\ do_tasks.C
    /\ gold_datum.timeline_level.summary_sents # <<>>
    /\ submission_data[timeline_id].timeline_level.summary = NoneV
    /\ TimelineNliPart(curr_results) = <<WorstCaseC>>

\* the task A.1 results among a timeline's results
SpanPart(results) ==
    SelectSeq(results, LAMBDA d : \E key \in DOMAIN d :
                  key \in {"bertscore_recall", "bertscore_recall_adaptive",
                           "bertscore_recall_maladaptive"})

UnsuffixedNames == {"bertscore_recall", "bertscore_weighted_recall"}

\* C12: with task A.1 active a timeline gets four A.1 results: the adaptive
\* and the maladaptive one, each scored from its own gold and predicted
\* spans under the same unsuffixed names, then the two again under
\* "_adaptive" and "_maladaptive" names with the values of the unsuffixed
\* ones.  Without task A.1 there is none.
ThmC12 ==
    pc \in {"A2", "B", "C", "store"} =>
        LET part == SpanPart(curr_results)
        IN  IF ~do_tasks.A1 THEN part = <<>>
            ELSE /\ Len(part) = 4
                 /\ part[1] = compute_span_metrics(gold_datum.timeline_level.adaptive_spans,
                                                   predicted_spans_adaptive)
                 /\ part[2] = compute_span_metrics(gold_datum.timeline_level.maladaptive_spans,
                                                   predicted_spans_maladaptive)
                 /\ DOMAIN part[1] = UnsuffixedNames
                 /\ DOMAIN part[2] = UnsuffixedNames
                 /\ DOMAIN part[3] = {n \o "_adaptive" : n \in UnsuffixedNames}
                 /\ DOMAIN part[4] = {n \o "_maladaptive" : n \in UnsuffixedNames}
                 /\ \A n \in UnsuffixedNames :
                       /\ part[3][n \o "_adaptive"] = part[1][n]
                       /\ part[4][n \o "_maladaptive"] = part[2][n]

\* C12: task A.1 ran on a timeline whose adaptive result differs from the
\* maladaptive one and whose weighted recall differs from its recall
WitC12 ==
    /\ pc = "A2"
    /\ do_tasks.A1
    /\ Len(curr_results) = 4
    /\ curr_results[1] # curr_results[2]
    /\ curr_results[1]["bertscore_recall"] # curr_results[1]["bertscore_weighted_recall"]

\* the task A.2 results among a timeline's results
MsePart(results) == SelectSeq(results, LAMBDA d : "mse" \in DOMAIN d)

RECURSIVE JoinedSpans(_, _)
\* the spans the submission gives under key for the first n gold posts of
\* the current timeline, in gold post order
JoinedSpans(key, n) ==
    IF n = 0 THEN <<>>
    ELSE JoinedSpans(key, n - 1) \o Get(SubmittedPost(n), key, <<>>)

\* C23: predictions are joined to gold by post id in the gold post order.
\* While a gold timeline is scored the predicted lists hold one entry per gold
\* post read, entry i taken from the submitted post with id post_ids[i] (all
\* gold posts once the post loop is over); the A.2 and B results compare entry
\* i with the gold value of post_ids[i]; nothing of a post or timeline that
\* only the submission has enters a list or a result, and the returned map
\* has exactly the gold timeline ids as keys.
ThmC23 ==
    /\ pc \in {"posts", "A1", "A2", "B", "C", "store", "raised"} =>
          /\ Len(predicted_wellbeing_scores) = post_i - 1
          /\ Len(predicted_summary_sents) = post_i - 1
          /\ pc \in {"A1", "A2", "B", "C", "store"} => post_i - 1 = Len(post_ids)
          /\ \A i \in 1..(post_i - 1) :
                /\ HasPost(i)
                /\ predicted_wellbeing_scores[i] = NormalizeScore(RawScore(i)).value
                /\ predicted_summary_sents[i] =
                      StripNonBlank(sent_tokenize(Get(SubmittedPost(i), "summary", StrV(1))))
          /\ predicted_spans_adaptive = JoinedSpans("adaptive_evidence", post_i - 1)
          /\ predicted_spans_maladaptive = JoinedSpans("maladaptive_evidence", post_i - 1)
    /\ pc \in {"B", "C", "store"} =>
          MsePart(curr_results) =
              IF do_tasks.A2
              THEN <<compute_mse([i \in 1..Len(post_ids) |->
                                    gold_datum.post_level[post_ids[i]].wellbeing_score],
                                 predicted_wellbeing_scores, TRUE, TRUE, "").result>>
              ELSE <<>>
    /\ pc \in {"C", "store"} =>
          PostNliPart(curr_results) =
              IF do_tasks.B
              THEN PostNliResults([i \in 1..Len(post_ids) |->
                                     gold_datum.post_level[post_ids[i]].summary_sents],
                                  predicted_summary_sents, 1)
              ELSE <<>>
    /\ DOMAIN timeline_to_results \subseteq DOMAIN gold_data
    /\ pc = "returned" => DOMAIN timeline_to_results = DOMAIN gold_data

\* C23: a submission with a post and a timeline of its own has been scored
\* for all tasks against a gold timeline of two posts with different
\* predictions, and the map returned has the two gold timelines only
WitC23 ==
    /\ pc = "returned"
    /\ "tx" \in DOMAIN submission_data
    /\ "px" \in DOMAIN submission_data["t1"].post_level
    /\ do_tasks.A2
    /\ do_tasks.A1
    /\ Len(gold_data["t1"].timeline_level.post_ids) = 2
    /\ submission_data["t1"].post_level["p1"].wellbeing_score
          # submission_data["t1"].post_level["p2"].wellbeing_score
    /\ DOMAIN timeline_to_results = {"t1", "t2"}
    /\ Len(timeline_to_results["t1"]) = 8

\* ------------------------------- claims about compute_span_metrics
\* a span list without any text: empty, or of blank strings only
AllBlank(spans) ==
    \A i \in 1..Len(spans) : \A n \in 1..Len(spans[i]) : spans[i][n] \in Whitespace

\* the words of a span list
RECURSIVE WordCount(_)
WordCount(spans) ==
    IF spans = <<>> THEN 0
    ELSE Cardinality({n \in 1..Len(Head(spans)) : Head(spans)[n] \notin Whitespace})
         + WordCount(Tail(spans))

ZeroSpanResult ==
    [key \in {"bertscore_recall", "bertscore_weighted_recall"} |->
        [task |-> "A.1", value |-> [num |-> 0, den |-> 1]]]

\* C13: a predicted span list that is empty after stripping and dropping
\* blank strings gives bertscore_recall = 0.0 and bertscore_weighted_recall
\* = 0.0, whatever the gold span list, an empty one included.
ThmC13 ==
    (ss_pc = "done" /\ AllBlank(ss_predicted_in)) => ss_result = ZeroSpanResult

\* C13: blank predictions against an empty gold list were scored zero
WitC13 ==
    /\ ss_pc = "done"
    /\ ss_predicted_in # <<>>
    /\ AllBlank(ss_predicted_in)
    /\ AllBlank(ss_gold_in)
    /\ ss_result = ZeroSpanResult

\* x = y * f on fractions; nan on one side means nan on the other
FracIsProduct(x, y, f) ==
    /\ x.num * y.den * f.den = y.num * f.num * x.den
    /\ (x.den = 0) <=> (y.den = 0)

\* C14: with predictions left after stripping, and g and p the token counts
\* of the gold and the predicted spans, the weight is g/p when g < p and 1.0
\* otherwise, and bertscore_weighted_recall is bertscore_recall times it.
ThmC14 ==
    (ss_pc = "done" /\ ~AllBlank(ss_predicted_in)) =>
        LET g == WordCount(ss_gold_in)
            p == WordCount(ss_predicted_in)
        IN  /\ g < p => weight.num * p = g * weight.den
            /\ g >= p => weight.num = weight.den
            /\ weight.den # 0
            /\ FracIsProduct(ss_result["bertscore_weighted_recall"].value,
                             ss_result["bertscore_recall"].value, weight)

\* C14: two gold tokens against four predicted ones halved a recall that is
\* not zero
WitC14 ==
    /\ ss_pc = "done"
    /\ WordCount(ss_gold_in) = 2
    /\ WordCount(ss_predicted_in) = 4
    /\ ss_result["bertscore_recall"].value.num # 0
    /\ 2 * ss_result["bertscore_weighted_recall"].value.num
          * ss_result["bertscore_recall"].value.den
       = ss_result["bertscore_recall"].value.num
          * ss_result["bertscore_weighted_recall"].value.den

\* --------------------------------- claims about compute_nli_scores
\* the three values of the result, by the names the call's prefix and
\* source_name give them
MeanConsistency ==
    nli_result[nli_args.prefix \o "_mean_consistency_" \o nli_args.source_name].value
MaxEntailment ==
    nli_result[nli_args.prefix \o "_max_entailment_" \o nli_args.source_name].value
MaxContradiction ==
    nli_result[nli_args.prefix \o "_max_contradiction_" \o nli_args.source_name].value

\* C15: with no predicted sentence compute_nli_scores returns
\* mean_consistency 0.0, max_entailment 0.0 and max_contradiction 1.0 for
\* every source list, and the NLI model is never called.
ThmC15 ==
    predicted_sents = <<>> =>
        /\ nli_calls = <<>>
        /\ nli_pc # "raised"
        /\ nli_pc = "done" =>
              /\ MeanConsistency = [num |-> 0, den |-> 1]
              /\ MaxEntailment = [num |-> 0, den |-> 1]
              /\ MaxContradiction = [num |-> 1, den |-> 1]

\* C15: the call returned for two source sentences and no predicted one
WitC15 ==
    /\ nli_pc = "done"
    /\ predicted_sents = <<>>
    /\ Len(source_sents) = 2
    /\ nli_calls = <<>>
    /\ MaxContradiction = [num |-> 1, den |-> 1]

\* the calls made are the cross product, each pair once, gold as premise
CrossProductOnce ==
    /\ Len(nli_calls) = Len(source_sents) * Len(predicted_sents)
    /\ \A a \in 1..Len(source_sents), b \in 1..Len(predicted_sents) :
          Cardinality({n \in 1..Len(nli_calls) :
                          nli_calls[n].i = a /\ nli_calls[n].j = b}) = 1
    /\ \A n \in 1..Len(nli_calls) :
          /\ nli_calls[n].premise = source_sents[nli_calls[n].i]
          /\ nli_calls[n].hypothesis = predicted_sents[nli_calls[n].j]

\* the values of the claim over the scores the calls gave
ClaimedMetrics ==
    LET n == Len(nli_calls)
        contra == {nli_calls[c].scores.contradiction : c \in 1..n}
        entail == {nli_calls[c].scores.entailment : c \in 1..n}
    IN  /\ MeanConsistency.den = 1000 * n
        /\ MeanConsistency.num =
              1000 * n - SumSeq([c \in 1..n |-> nli_calls[c].scores.contradiction])
        /\ MaxEntailment.den = 1000
        /\ MaxEntailment.num \in entail
        /\ \A e \in entail : e <= MaxEntailment.num
        /\ MaxContradiction.den = 1000
        /\ MaxContradiction.num \in contra
        /\ \A x \in contra : x <= MaxContradiction.num
        \* mean_consistency >= 1 - max_contradiction
        /\ MeanConsistency.num * 1000 >=
              (1000 - MaxContradiction.num) * MeanConsistency.den

\* C16 as stated: with predicted sentences the call returns, after the
\* whole cross product was evaluated once, mean_consistency = 1 - mean
\* contradiction and the two maxima, so mean_consistency >= 1 -
\* max_contradiction.
CexC16 ==
    predicted_sents # <<>> =>
        /\ nli_pc # "raised"
        /\ nli_pc = "done" => (CrossProductOnce /\ ClaimedMetrics)

\* C16, amended: with predicted sentences and at least one source sentence
\* the call returns, after every (source, predicted) pair was evaluated
\* once with the source as premise, mean_consistency = 1 - mean
\* contradiction, max_entailment and max_contradiction the maxima over the
\* pairs, and mean_consistency >= 1 - max_contradiction.
ThmC16 ==
    (predicted_sents # <<>> /\ source_sents # <<>>) =>
        /\ nli_pc # "raised"
        /\ nli_pc = "done" => (CrossProductOnce /\ ClaimedMetrics)

\* C16: two source sentences against two predicted ones, with scores that
\* differ, were evaluated and returned
WitC16 ==
    /\ nli_pc = "done"
    /\ Len(source_sents) = 2
    /\ Len(predicted_sents) = 2
    /\ Len(nli_calls) = 4
    /\ nli_calls[1].scores # nli_calls[4].scores
    /\ MeanConsistency.num * 1000 > (1000 - MaxContradiction.num) * MeanConsistency.den

\* --------------------------------------- claims about the validator
\* the root is a JSON object, and the timelines of the mapping it lacks
RootIsDict == data.k = "dict"
MissingTimelines == DOMAIN timeline_id_to_post_ids \ DOMAIN data.items
ValidateFileDone == val_pc \in {"validated", "exited"}

\* main exits with 0 exactly when valid is still True, with 1 otherwise
ExitCodeFollowsValid ==
    val_pc = "exited" => exit_code = (IF valid THEN 0 ELSE 1)

\* C17 as stated: for a submission that lacks a timeline of the mapping
\* validate_file sets valid to False and adds every missing timeline id to
\* timelines_with_issues, and main exits with 1; main exits with 0 exactly
\* when valid is still True.
CexC17 ==
    /\ (ValidateFileDone /\ RootIsDict /\ MissingTimelines # {}) =>
          /\ ~valid
          /\ MissingTimelines \subseteq timelines_with_issues
          /\ val_pc = "exited" => exit_code = 1
    /\ ExitCodeFollowsValid

\* C17, amended: for a submission whose root is a non-empty object and
\* that lacks a timeline of the mapping validate_file sets valid to False
\* and adds every missing timeline id to timelines_with_issues; for an
\* empty root valid is set to False and nothing is recorded; main exits
\* with 1 in both cases, and with 0 exactly when valid is still True.
ThmC17 ==
    /\ (ValidateFileDone /\ RootIsDict /\ MissingTimelines # {}) =>
          /\ ~valid
          /\ IF Falsy(data) THEN timelines_with_issues = {}
             ELSE MissingTimelines \subseteq timelines_with_issues
          /\ val_pc = "exited" => exit_code = 1
    /\ ExitCodeFollowsValid

\* C17: main exited with 1 for a file that has a sound "t1" and no "t2"
WitC17 ==
    /\ val_pc = "exited"
    /\ exit_code = 1
    /\ RootIsDict
    /\ DOMAIN data.items = {"t1"}
    /\ timelines_with_issues = {"t2"}
    /\ posts_with_issues = {}

\* the post entry validate_post_dict was called for
PostEntry(tp) == data.items[tp[1]].items["post_level"].items[tp[2]]
ScoreOf(tp) == PostEntry(tp).items["wellbeing_score"]
OnlyScoreDeviates(tp) ==
    /\ PostEntry(tp).k = "dict"
    /\ DOMAIN PostEntry(tp).items = PostKeys
    /\ PostEntry(tp) = With(GoodPostData, "wellbeing_score", ScoreOf(tp))

\* C18: validate_post_dict takes the numeric string "7" for valid (no issue
\* recorded), only warns about the float 7.0, and records a post with score
\* 11 or 0 in posts_with_issues.
CexC18 ==
    \A tp \in validated_posts :
        OnlyScoreDeviates(tp) =>
            /\ ScoreOf(tp) = StrV(1) => tp \notin posts_with_issues
            /\ ScoreOf(tp) = FloatV(7 * FloatScale) =>
                  /\ tp \notin posts_with_issues
                  /\ [kind |-> "float_score", tid |-> tp[1], pid |-> tp[2]] \in warnings
            /\ ScoreOf(tp) \in {IntV(11), IntV(0)} => tp \in posts_with_issues

\* an entry of the root, or of a post_level, with a structural error: no
\* object, an empty one, a required field missing or of the wrong type
BadEvidence(e) == e.k # "list" \/ \E i \in 1..Len(e.v) : e.v[i].k # "str"
StructuralPostError(pd) ==
    \/ pd.k # "dict"
    \/ DOMAIN pd.items # PostKeys
    \/ BadEvidence(pd.items["adaptive_evidence"])
    \/ BadEvidence(pd.items["maladaptive_evidence"])
    \/ pd.items["summary"].k # "str"
    \/ pd.items["wellbeing_score"].k \notin {"none", "int", "float", "bool"}
StructuralTimelineError(td) ==
    \/ td.k # "dict"
    \/ DOMAIN td.items # {"timeline_level", "post_level"}
    \/ td.items["timeline_level"].k # "dict"
    \/ DOMAIN td.items["timeline_level"].items # {"summary"}
    \/ td.items["timeline_level"].items["summary"].k # "str"
    \/ td.items["post_level"].k # "dict"
    \/ DOMAIN td.items["post_level"].items = {}

\* the post entries of the file that sit in an object-valued post_level
PostEntries ==
    {tp \in (DOMAIN data.items) \X {"p1", "p2", "px", ""} :
        /\ data.items[tp[1]].k = "dict"
        /\ "post_level" \in DOMAIN data.items[tp[1]].items
        /\ data.items[tp[1]].items["post_level"].k = "dict"
        /\ tp[2] \in DOMAIN data.items[tp[1]].items["post_level"].items}

\* C19: for a root that is a non-empty object validate_file validates every
\* timeline entry and every post entry of every object-valued post_level,
\* whatever was flagged before, and every entry with a structural error
\* ends up in the issue sets.
CexC19 ==
    (ValidateFileDone /\ RootIsDict /\ ~Falsy(data)) =>
        /\ validated_timelines = DOMAIN data.items
        /\ validated_posts = PostEntries
        /\ \A tid \in DOMAIN data.items :
              StructuralTimelineError(data.items[tid]) => tid \in timelines_with_issues
        /\ \A tp \in PostEntries :
              StructuralPostError(PostEntry(tp)) => tp \in posts_with_issues

\* a post and a timeline entry with no deviation but an empty summary or a
\* float score within 1..10
WarningsOnlyPost(pd) ==
    \/ pd \in {GoodPostData, With(GoodPostData, "summary", StrV(1))}
    \/ \E w \in {FloatV(7 * FloatScale), FloatV(7 * FloatScale + 1)} :
          pd = With(GoodPostData, "wellbeing_score", w)
WarningsOnlyTimeline(tid) ==
    LET td == data.items[tid]
    IN  /\ ~StructuralTimelineError(td)
        /\ ExpectedPostIds(tid) \subseteq DOMAIN td.items["post_level"].items
        /\ \A pid \in DOMAIN td.items["post_level"].items :
              WarningsOnlyPost(td.items["post_level"].items[pid])

\* C20: a submission that deviates only by an empty summary string, a float
\* wellbeing score, or an extra timeline or post outside the mapping keeps
\* valid True and both issue sets empty (and main exits with 0).
ThmC20 ==
    (ValidateFileDone /\ RootIsDict /\ MissingTimelines = {}
        /\ \A tid \in DOMAIN data.items : WarningsOnlyTimeline(tid)) =>
            /\ valid
            /\ timelines_with_issues = {}
            /\ posts_with_issues = {}
            /\ val_pc = "exited" => exit_code = 0

\* C20: main exited with 0 after warnings about a float score, an extra
\* post and an extra timeline
WitC20 ==
    /\ val_pc = "exited"
    /\ exit_code = 0
    /\ RootIsDict
    /\ valid
    /\ timelines_with_issues = {}
    /\ posts_with_issues = {}
    /\ {w.kind : w \in warnings} =
          {"float_score", "unexpected_posts", "unexpected_timelines"}
    /\ \E tid \in DOMAIN data.items : WarningsOnlyTimeline(tid)

\* -------------------------------------- claims about parse_filename
\* the positions of the delimiter in the stem
Delimiters == {i \in 1..Len(stem) : stem[i] = "_"}

\* C21: a stem of the form {team}_{submission_id} yields (team,
\* submission_id), the two parts around the delimiter, and a stem without the
\* delimiter yields the bare stem for both team name and submission id.
CexC21 ==
    pf_pc = "done" =>
        /\ Delimiters = {} => (team_name = stem /\ submission_id = stem)
        /\ Delimiters # {} =>
              \E k \in Delimiters :
                  /\ team_name = SubSeq(stem, 1, k - 1)
                  /\ submission_id = SubSeq(stem, k + 1, Len(stem))

\* ------------------------ claims about the Validator's methods in any order
\* the issue sets imply valid = False, and a post's timeline is recorded
IssuesConsistent ==
    /\ (timelines_with_issues # {} \/ posts_with_issues # {}) => ~valid
    /\ \A pair \in posts_with_issues : pair[1] \in timelines_with_issues

\* one step never sets valid again nor takes an issue away
IssuesMonotone ==
    /\ valid' => valid
    /\ timelines_with_issues \subseteq timelines_with_issues'
    /\ posts_with_issues \subseteq posts_with_issues'

\* C25: whatever methods of the Validator are called in whatever order, valid
\* is False whenever an issue set is non-empty, the timeline of every pair in
\* posts_with_issues is in timelines_with_issues, valid never goes back from
\* False to True and the issue sets never shrink.
ThmC25 == [](IssuesConsistent) /\ [][IssuesMonotone]_vars

\* C25: after a run of validate_file (which alone records timeline t2) and
\* further calls the validator holds post issues, a timeline issue without a
\* post and a warning
WitC25 ==
    /\ val_pc = "ops"
    /\ ~valid
    /\ <<"t1", "p1">> \in posts_with_issues
    /\ <<"", "">> \in posts_with_issues
    /\ "t2" \in timelines_with_issues
    /\ warnings # {}

====
